---- MODULE Spec2Model ----
(***************************************************************************)
(* Verification model of the Python Thrift runtime (lib/py).               *)
(*                                                                         *)
(* Part 1: thrift/TTornado.py                                              *)
(*   _Lock, TTornadoStreamTransport.readFrame / write / flush              *)
(* Part 2: the buffered flush of TMessageSenderTransport (TTwisted.py)     *)
(*   and THttpClient (THttpClient.py)                                      *)
(***************************************************************************)
EXTENDS Integers, Sequences, FiniteSets, TLC

(***************************************************************************)
(* Bounds                                                                  *)
(***************************************************************************)
\* number of coroutines that call readFrame on the one transport
NumCallers == 3
\* number of frames the peer puts on the stream
MaxFrames == 2
\* number of readFrame calls whose with_timeout wrapper may expire
MaxTimeouts == 1

\* number of bytes written to the transports
MaxBytes == 3
\* number of flush() calls
MaxFlushes == 2

Callers == 1..NumCallers

\* written bytes are numbered from here, apart from the bytes of a length prefix
FirstByte == 16

\* the value None of the source
None == 0

\* payloads the peer may send as one frame (one empty, one not)
Payloads == {<< >>, <<7, 9>>}

(***************************************************************************)
(* struct.pack('!i', n) / struct.unpack('!i', b): 4 bytes, big-endian,     *)
(* two's complement.                                                       *)
(***************************************************************************)
\* (variant: '<i', little-endian)
pack_i_little_endian(n) ==
    << n % 256, (n \div 256) % 256, (n \div 65536) % 256, (n \div 16777216) % 256 >>

\* \div rounds down and % is never negative, which gives two's complement
pack_i(n) ==
    << (n \div 16777216) % 256, (n \div 65536) % 256, (n \div 256) % 256, n % 256 >>

\* (variant: '<i', little-endian)
unpack_i_little_endian(b) ==
    (IF b[4] >= 128 THEN b[4] - 256 ELSE b[4]) * 16777216
        + b[3] * 65536 + b[2] * 256 + b[1]

\* the first byte carries the sign
unpack_i(b) ==
    (IF b[1] >= 128 THEN b[1] - 256 ELSE b[1]) * 16777216
        + b[2] * 65536 + b[3] * 256 + b[4]

(***************************************************************************)
(* What the peer sent: a concatenation of frames, or such a concatenation  *)
(* followed by a header that declares a negative length.                   *)
(***************************************************************************)
RECURSIVE Flatten(_)
Flatten(ss) ==
    IF Len(ss) = 0 THEN << >> ELSE Head(ss) \o Flatten(Tail(ss))

EncodeFrame(p) == pack_i(Len(p)) \o p

RECURSIVE EncodeFrames(_)
EncodeFrames(fs) ==
    IF Len(fs) = 0 THEN << >> ELSE EncodeFrame(Head(fs)) \o EncodeFrames(Tail(fs))

RECURSIVE SeqsUpTo(_, _)
SeqsUpTo(S, n) ==
    IF n = 0 THEN {<< >>}
    ELSE LET shorter == SeqsUpTo(S, n - 1)
         IN  shorter \cup {Append(s, x) : s \in shorter, x \in S}

FrameLists == SeqsUpTo(Payloads, MaxFrames)

\* a header declaring the length -1, followed by one byte
NegativeTail == pack_i(-1) \o <<5>>

Range(s) == {s[i] : i \in 1..Len(s)}

IsPrefix(s, t) == Len(s) <= Len(t) /\ SubSeq(t, 1, Len(s)) = s

(***************************************************************************)
(* State                                                                   *)
(***************************************************************************)
VARIABLES
    _waiters,     \* _Lock._waiters: deque of futures; the future made by caller c is c
    resolved,     \* futures on which set_result was called
    pc,           \* where each readFrame coroutine is suspended
    blocker,      \* the local `blocker` of each acquire() call
    frame_length, \* the local `frame_length` of each readFrame call
    result,       \* what each readFrame call returned or raised
    stream,       \* self.stream: "none" (None), "open", "closed"
    inbuf,        \* bytes of the stream not yet consumed by read_bytes
    frames,       \* history: the frames the peer sent
    wellFormed,   \* history: the stream is exactly a concatenation of frames
    enqOrder,     \* history: callers in the order of their acquire() calls
    grantOrder,   \* history: callers in the order their acquire() returned
    releases,     \* history: number of release() calls made by each caller's guard
    readLog,      \* history: the read_bytes calls issued on the stream
    timedOutAt,   \* history: where a call was suspended when its with_timeout fired
    arrivedInGap, \* history: acquire() calls made after a release and before the
                  \* released waiter resumed
    wbuf,         \* the write buffer (self.__wbuf) of each buffered transport
    wire,         \* the calls of the underlying write/send made by each transport
    http_open,    \* THttpClient: self.__http is not None
    nextByte,     \* history: every byte written is a fresh value
    sinceFlush,   \* history: the bytes written to a transport since its last flush() call
    flushLog,     \* history: one record for each flush() call
    sasl_pc,      \* ThriftSASLClientProtocol: where the connectionMade coroutine is
    _sasl_negotiation_deferred, \* "None", or a Deferred that is "pending" or "fired"
    _sasl_negotiation_status,   \* the status byte saved by dataReceived
    _unprocessed, \* the receive buffer of Int32StringReceiver
    sasl_complete,\* self.sasl.complete
    challenge,    \* the challenge handed to sasl.process in the thread pool
    client,       \* self.client is not None
    started,      \* self.started has fired
    transport,    \* "no", "open" or "lost": the state of self.transport
    written,      \* the transport.write calls of the protocol, in order
    net,          \* bytes the server has sent that dataReceived has not been given
    serverSent,   \* history: the messages the server sent, in order
    outOfTurn,    \* history: the server sent while the client awaited no message
    chunked,      \* history: the dataReceived calls given only a part of the bytes in flight
    negotiated,   \* history: the responses handed to the negotiation loop
    unwrapped,    \* history: the sasl.unwrap calls
    delivered,    \* history: the frames handed to the client's recv_ handlers
    dispatched,   \* history: the dispatch calls
    errors,       \* history: the exceptions raised, in order
    trans,        \* TProtocolBase: the tokens written to the transport of the protocol
    rpos,         \* the read position: the number of tokens taken by the readers
    writes,       \* history: the values written, with their spec and where they end
    reads,        \* history: the outcomes of the reads
    checks,       \* history: the calls of _check_length and checkIntegerLimits, with
                  \* their outcomes
    http_ctor,    \* THttpClient.__init__: its arguments and what it left behind
    tssl,         \* the TSSLSocket or TSSLServerSocket of the run, once constructed
    cl_pc,        \* ThriftClientProtocol: "unconnected", "negotiating", "ready" or "lost"
    cl_client,    \* self.client is not None
    _reqs,        \* self.client._reqs: the pending requests, in the order of insertion
    cl_issued,    \* the number of requests registered so far (the last seqid)
    cl_outcomes,  \* history: the callback and errback calls on the requests
    hs_pc,        \* TTornadoServer.handle_stream: where the coroutine is
    hs_stream,    \* the stream of the connection: "open" or "closed"
    hs_inbound,   \* frames that arrived on the stream and were not read yet
    hs_arrived,   \* history: the frames that arrived, in order
    hs_events,    \* history: the calls and exits of handle_stream, in order
    sp_transport, \* ThriftServerProtocol: "open", or "lost" after loseConnection
    sp_received,  \* history: the requests given to stringReceived, in order
    sp_deferred,  \* the Deferred that process returned for each request
    sp_dispatched \* history: the requests whose response was dispatched, in order

\* state of the readFrame side, without self.stream
readVars == << _waiters, resolved, pc, blocker, frame_length, result, inbuf,
               frames, wellFormed, enqOrder, grantOrder, releases, readLog, timedOutAt,
               arrivedInGap >>

\* state of the write/flush side, without self.stream
writeVars == << wbuf, wire, http_open, nextByte, sinceFlush, flushLog >>

\* state of ThriftSASLClientProtocol
saslVars == << sasl_pc, _sasl_negotiation_deferred, _sasl_negotiation_status,
               _unprocessed, sasl_complete, challenge, client, started, transport,
               written, net, serverSent, outOfTurn, chunked, negotiated, unwrapped,
               delivered, dispatched, errors >>

\* state of the protocol engine of TProtocolBase
codecVars == << trans, rpos, writes, reads >>

\* state of TTornadoServer.handle_stream and of ThriftServerProtocol
serverVars == << hs_pc, hs_stream, hs_inbound, hs_arrived, hs_events,
                 sp_transport, sp_received, sp_deferred, sp_dispatched >>

\* state of the value checks, of the TLS set-up and of the Twisted client
clientVars == << cl_pc, cl_client, _reqs, cl_issued, cl_outcomes >>

sideVars == << checks, http_ctor, tssl, clientVars >>

\* state outside the Tornado and buffered-transport parts
extVars == << saslVars, codecVars, serverVars, sideVars >>

vars == << readVars, stream, writeVars, extVars >>

NoResult == [kind |-> "none", frame |-> << >>, err |-> "NONE", cause |-> "NONE"]

FrameResult(f) == [kind |-> "frame", frame |-> f, err |-> "NONE", cause |-> "NONE"]

\* a raised TTransportException: its type, and the exception it was made from
ErrorResult(t, exc) == [kind |-> "error", frame |-> << >>, err |-> t, cause |-> exc]

timedOut == {c \in Callers : timedOutAt[c] # "no"}

(***************************************************************************)
(* _Lock                                                                   *)
(***************************************************************************)
\* (variant: the test is off by one)
acquired_off_by_one(w) == Len(w) > 1

\* _Lock.acquired
acquired(w) == Len(w) > 0

\* (variant: waits for the head of the queue instead of its tail)
acquire_blocker_head(w) == IF acquired(w) THEN w[1] ELSE None

\* acquire(): blocker = self._waiters[-1] if self.acquired() else None
acquire_blocker(w) == IF acquired(w) THEN w[Len(w)] ELSE None

\* acquire(): self._waiters.append(future)
acquire_append(w, f) == Append(w, f)

\* (variant: the future of the next waiter is resolved instead of the popped one)
release_wakes_next(w) ==
    [waiters |-> Tail(w), future |-> IF Len(w) > 1 THEN w[2] ELSE w[1]]

\* (variant: pop() instead of popleft())
release_pop(w) == [waiters |-> SubSeq(w, 1, Len(w) - 1), future |-> w[Len(w)]]

\* release(): future = self._waiters.popleft(); future.set_result(None)
release(w) == [waiters |-> Tail(w), future |-> Head(w)]

\* (variant: release() after the yield, without try/finally)
lock_context_releases_on_return(exit) == exit = "return"

\* _lock_context: try: yield / finally: self.release() -- released on every
\* way out of the with block
lock_context_releases(exit) == exit \in {"return", "raise"}

\* (variant: the two except clauses raise each other's type)
io_exception_context_swapped(exc) ==
    CASE exc \in {"socket.error", "IOError", "StreamClosedError"} -> "UNKNOWN"
      [] exc = "StreamBufferFullError" -> "END_OF_FILE"
      [] OTHER -> exc

\* io_exception_context: the TTransportException type an exception becomes
io_exception_context(exc) ==
    CASE exc \in {"socket.error", "IOError", "StreamClosedError"} -> "END_OF_FILE"
      [] exc = "StreamBufferFullError" -> "UNKNOWN"
      [] OTHER -> exc

\* readFrame: if len(frame_header) == 0: raise iostream.StreamClosedError()
header_is_empty(frame_header) == Len(frame_header) = 0

\* (variant: the expired call's future is taken out of the queue)
with_timeout_removes(w, c) == SelectSeq(w, LAMBDA f : f # c)

\* with_timeout: gen.with_timeout(timeout, future) does not cancel the wrapped
\* coroutine, and nothing takes its future out of the lock's queue
with_timeout(w, c) == w

(***************************************************************************)
(* Leaving the with block of readFrame with result r.                      *)
(***************************************************************************)
LeaveLocked(c, w, exit, r) ==
    /\ result' = [result EXCEPT ![c] = r]
    /\ pc' = [pc EXCEPT ![c] = "done"]
    /\ IF lock_context_releases(exit)
       THEN /\ _waiters' = release(w).waiters
            /\ resolved' = resolved \cup {release(w).future}
            /\ releases' = [releases EXCEPT ![c] = @ + 1]
       ELSE /\ _waiters' = w
            /\ UNCHANGED << resolved, releases >>

\* readFrame from the return of acquire() to its first suspension:
\* the stream check and the read_bytes(4) request
EnterLocked(c, w) ==
    /\ grantOrder' = Append(grantOrder, c)
    /\ IF stream = "none"
       THEN /\ LeaveLocked(c, w, "raise", ErrorResult("NOT_OPEN", "NONE"))
            /\ UNCHANGED readLog
       ELSE /\ pc' = [pc EXCEPT ![c] = "header"]
            /\ readLog' = Append(readLog, [caller |-> c, kind |-> "header", n |-> 4])
            /\ _waiters' = w
            /\ UNCHANGED << resolved, releases, result >>

(***************************************************************************)
(* Actions of the read side                                                *)
(***************************************************************************)
\* readFrame is called: acquire() runs up to `yield blocker`, or through
AcquireCall(c) ==
    /\ pc[c] = "start"
    /\ enqOrder' = Append(enqOrder, c)
    /\ blocker' = [blocker EXCEPT ![c] = acquire_blocker(_waiters)]
    /\ arrivedInGap' =
           IF \E d \in Callers : pc[d] = "waiting" /\ blocker[d] \in resolved
           THEN arrivedInGap \cup {c} ELSE arrivedInGap
    /\ IF acquire_blocker(_waiters) # None
       THEN /\ _waiters' = acquire_append(_waiters, c)
            /\ pc' = [pc EXCEPT ![c] = "waiting"]
            /\ UNCHANGED << resolved, releases, result, grantOrder, readLog >>
       ELSE EnterLocked(c, acquire_append(_waiters, c))
    /\ UNCHANGED << frame_length, stream, inbuf, frames, wellFormed, timedOutAt >>
    /\ UNCHANGED << writeVars, extVars >>

\* the blocker's future was resolved: the IOLoop resumes the coroutine
Resume(c) ==
    /\ pc[c] = "waiting"
    /\ blocker[c] \in resolved
    /\ EnterLocked(c, _waiters)
    /\ UNCHANGED << blocker, enqOrder, frame_length, stream, inbuf, frames,
                    wellFormed, timedOutAt, arrivedInGap >>
    /\ UNCHANGED << writeVars, extVars >>

\* read_bytes(4) delivers the header; read_bytes(frame_length) is requested
HeaderRead(c) ==
    /\ pc[c] = "header"
    /\ stream = "open"
    /\ Len(inbuf) >= 4
    /\ LET frame_header == SubSeq(inbuf, 1, 4)
       IN  /\ ~header_is_empty(frame_header)
           /\ frame_length' = [frame_length EXCEPT ![c] = unpack_i(frame_header)]
           /\ readLog' = Append(readLog,
                  [caller |-> c, kind |-> "body", n |-> unpack_i(frame_header)])
    /\ inbuf' = SubSeq(inbuf, 5, Len(inbuf))
    /\ pc' = [pc EXCEPT ![c] = "body"]
    /\ UNCHANGED << _waiters, resolved, blocker, result, stream, frames, wellFormed,
                    enqOrder, grantOrder, releases, timedOutAt, arrivedInGap >>
    /\ UNCHANGED << writeVars, extVars >>

\* read_bytes(4) delivers b'' on a closed stream
HeaderEmpty(c) ==
    /\ pc[c] = "header"
    /\ stream = "closed"
    /\ header_is_empty(<< >>)
    /\ LeaveLocked(c, _waiters, "raise",
           ErrorResult(io_exception_context("StreamClosedError"), "StreamClosedError"))
    /\ UNCHANGED << blocker, frame_length, stream, inbuf, frames, wellFormed, enqOrder,
                    grantOrder, readLog, timedOutAt, arrivedInGap >>
    /\ UNCHANGED << writeVars, extVars >>

\* a pending read_bytes raises: StreamClosedError on a closed stream; on an open
\* one another error, with which IOStream closes itself
ReadRaises(c, exc) ==
    /\ pc[c] \in {"header", "body"}
    /\ stream \in {"open", "closed"}
    /\ exc = "StreamClosedError" <=> stream = "closed"
    /\ stream' = "closed"
    /\ LeaveLocked(c, _waiters, "raise", ErrorResult(io_exception_context(exc), exc))
    /\ UNCHANGED << blocker, frame_length, inbuf, frames, wellFormed, enqOrder,
                    grantOrder, readLog, timedOutAt, arrivedInGap >>
    /\ UNCHANGED << writeVars, extVars >>

\* read_bytes(frame_length) delivers the body; the frame is returned
BodyRead(c) ==
    /\ pc[c] = "body"
    /\ stream = "open"
    /\ frame_length[c] >= 0
    /\ Len(inbuf) >= frame_length[c]
    /\ inbuf' = SubSeq(inbuf, frame_length[c] + 1, Len(inbuf))
    /\ LeaveLocked(c, _waiters, "return",
           FrameResult(SubSeq(inbuf, 1, frame_length[c])))
    /\ UNCHANGED << blocker, frame_length, stream, frames, wellFormed, enqOrder,
                    grantOrder, readLog, timedOutAt, arrivedInGap >>
    /\ UNCHANGED << writeVars, extVars >>

\* read_bytes with a negative count: IOStream documents no result for it, so it
\* delivers any number of the buffered bytes
BodyReadNegative(c) ==
    /\ pc[c] = "body"
    /\ stream = "open"
    /\ frame_length[c] < 0
    /\ \E k \in 0..Len(inbuf) :
          /\ inbuf' = SubSeq(inbuf, k + 1, Len(inbuf))
          /\ LeaveLocked(c, _waiters, "return", FrameResult(SubSeq(inbuf, 1, k)))
    /\ UNCHANGED << blocker, frame_length, stream, frames, wellFormed, enqOrder,
                    grantOrder, readLog, timedOutAt, arrivedInGap >>
    /\ UNCHANGED << writeVars, extVars >>

\* TTornadoStreamTransport.open: self.stream = IOStream(sock), then connect
Open(connected) ==
    /\ stream = "none"
    /\ stream' = IF connected THEN "open" ELSE "closed"
    /\ UNCHANGED << readVars, writeVars, extVars >>

\* the peer closes the connection, or close() is called
CloseStream ==
    /\ stream = "open"
    /\ stream' = "closed"
    /\ UNCHANGED << readVars, writeVars, extVars >>

\* with_timeout(timeout, readFrame()) expires while readFrame is suspended
Timeout(c) ==
    /\ pc[c] \in {"waiting", "header", "body"}
    /\ timedOutAt[c] = "no"
    /\ Cardinality(timedOut) < MaxTimeouts
    /\ timedOutAt' = [timedOutAt EXCEPT ![c] = pc[c]]
    /\ _waiters' = with_timeout(_waiters, c)
    /\ UNCHANGED << resolved, pc, blocker, frame_length, result, stream, inbuf,
                    frames, wellFormed, enqOrder, grantOrder, releases, readLog,
                    arrivedInGap >>
    /\ UNCHANGED << writeVars, extVars >>

ReadExceptions == {"StreamClosedError", "IOError", "StreamBufferFullError"}

\* the buffered transports
Transports == {"tornado", "sender", "http"}

\* the write side after construction: empty buffers, nothing sent
WriteInit ==
    /\ wbuf = [t \in Transports |-> << >>]
    /\ wire = [t \in Transports |-> << >>]
    /\ http_open = FALSE
    /\ nextByte = FirstByte
    /\ sinceFlush = [t \in Transports |-> << >>]
    /\ flushLog = << >>

\* ThriftSASLClientProtocol.__init__: no negotiation deferred, no status, no
\* client; Int32StringReceiver starts with an empty buffer
SaslInit ==
    /\ sasl_pc = "unconnected"
    /\ _sasl_negotiation_deferred = "None"
    /\ _sasl_negotiation_status = None
    /\ _unprocessed = << >>
    /\ sasl_complete = FALSE
    /\ challenge = << >>
    /\ client = FALSE
    /\ started = FALSE
    /\ transport = "no"
    /\ written = << >>
    /\ net = << >>
    /\ serverSent = << >>
    /\ outOfTurn = FALSE
    /\ chunked = 0
    /\ negotiated = << >>
    /\ unwrapped = << >>
    /\ delivered = << >>
    /\ dispatched = << >>
    /\ errors = << >>

\* a protocol on an empty transport
CodecInit ==
    /\ trans = << >>
    /\ rpos = 0
    /\ writes = << >>
    /\ reads = << >>

\* handle_stream was called with an open stream; a ThriftServerProtocol is
\* connected and has received nothing
\* no check has been made yet
SideInit ==
    /\ checks = << >>
    /\ http_ctor = << >>
    /\ tssl = << >>
    /\ cl_pc = "unconnected"
    /\ cl_client = FALSE
    /\ _reqs = << >>
    /\ cl_issued = 0
    /\ cl_outcomes = << >>

ServerInit ==
    /\ hs_pc = "loop"
    /\ hs_stream = "open"
    /\ hs_inbound = << >>
    /\ hs_arrived = << >>
    /\ hs_events = << >>
    /\ sp_transport = "open"
    /\ sp_received = << >>
    /\ sp_deferred = << >>
    /\ sp_dispatched = << >>

Init ==
    /\ WriteInit
    /\ SideInit
    /\ SaslInit
    /\ CodecInit
    /\ ServerInit
    /\ _waiters = << >>
    /\ resolved = {}
    /\ pc = [c \in Callers |-> "start"]
    /\ blocker = [c \in Callers |-> None]
    /\ frame_length = [c \in Callers |-> 0]
    /\ result = [c \in Callers |-> NoResult]
    /\ stream \in {"none", "open"}
    /\ frames \in FrameLists
    /\ wellFormed \in BOOLEAN
    /\ inbuf = IF wellFormed THEN EncodeFrames(frames)
               ELSE EncodeFrames(frames) \o NegativeTail
    /\ enqOrder = << >>
    /\ grantOrder = << >>
    /\ releases = [c \in Callers |-> 0]
    /\ readLog = << >>
    /\ timedOutAt = [c \in Callers |-> "no"]
    /\ arrivedInGap = {}

Next ==
    \/ \E c \in Callers : AcquireCall(c)
    \/ \E c \in Callers : Resume(c)
    \/ \E c \in Callers : HeaderRead(c)
    \/ \E c \in Callers : HeaderEmpty(c)
    \/ \E c \in Callers : \E exc \in ReadExceptions : ReadRaises(c, exc)
    \/ \E c \in Callers : BodyRead(c)
    \/ \E c \in Callers : BodyReadNegative(c)
    \/ \E connected \in BOOLEAN : Open(connected)
    \/ CloseStream
    \/ \E c \in Callers : Timeout(c)

Spec == Init /\ [][Next]_vars

(***************************************************************************)
(* write and flush of the buffered transports                              *)
(***************************************************************************)
\* (variant: the buffer is reset after the write, which a raise skips)
tornado_flush_wbuf_reset_late(frame, ok) == IF ok THEN << >> ELSE frame

\* TTornadoStreamTransport.flush: self.__wbuf = BytesIO() before stream.write
tornado_flush_wbuf(frame, ok) == << >>

\* (variant: the buffer is taken before the test of the stream)
tornado_flush_wbuf_taken_first(frame) == << >>

\* TTornadoStreamTransport.flush: NOT_OPEN is raised when self.stream is None,
\* before self.__wbuf.getvalue() and self.__wbuf = BytesIO()
tornado_flush_wbuf_not_open(frame) == frame

\* TMessageSenderTransport.flush: self.__wbuf = BytesIO() before sendMessage
sender_flush_wbuf(msg, ok) == << >>

\* THttpClient.flush: self.__wbuf = BytesIO() before the HTTP request
http_flush_wbuf(data, ok) == << >>

\* TTornadoStreamTransport.flush: self.stream.write(frame_length + frame)
tornado_flush_data(frame) == pack_i(Len(frame)) \o frame

FreshBytes(n) == [i \in 1..n |-> nextByte + i - 1]

\* self.__wbuf.write(buf), buf being n new bytes
BufferWrite(t, n) ==
    /\ nextByte + n <= FirstByte + MaxBytes
    /\ wbuf' = [wbuf EXCEPT ![t] = @ \o FreshBytes(n)]
    /\ sinceFlush' = [sinceFlush EXCEPT ![t] = @ \o FreshBytes(n)]
    /\ nextByte' = nextByte + n
    /\ UNCHANGED << wire, http_open, flushLog, stream, readVars, extVars >>

\* TTornadoStreamTransport.write
TornadoWrite(n) == BufferWrite("tornado", n)

\* TMessageSenderTransport.write
SenderWrite(n) == BufferWrite("sender", n)

\* THttpClient.write
HttpWrite(n) == BufferWrite("http", n)

FlushRecord(t, attempted, raised) ==
    [t |-> t, streamWas |-> IF t = "tornado" THEN stream ELSE "n/a",
     written |-> sinceFlush[t], attempted |-> attempted, raised |-> raised,
     wbufAfter |-> wbuf'[t], writes |-> Len(wire'[t]) - Len(wire[t])]

WriteExceptions == {"none", "StreamClosedError", "IOError", "StreamBufferFullError"}

\* TTornadoStreamTransport.flush; exc is what self.stream.write raises
TornadoFlush(exc) ==
    /\ Len(flushLog) < MaxFlushes
    /\ IF stream = "none"
       THEN /\ exc = "none"
            /\ wbuf' = [wbuf EXCEPT
                   !["tornado"] = tornado_flush_wbuf_not_open(@)]
            /\ UNCHANGED wire
            /\ flushLog' = Append(flushLog, FlushRecord("tornado", FALSE, "NOT_OPEN"))
       ELSE /\ exc = "StreamClosedError" <=> stream = "closed"
            /\ LET frame == wbuf["tornado"]
               IN  /\ wbuf' = [wbuf EXCEPT
                          !["tornado"] = tornado_flush_wbuf(frame, exc = "none")]
                   /\ wire' = [wire EXCEPT !["tornado"] =
                          Append(@, [data |-> tornado_flush_data(frame),
                                     ok |-> exc = "none"])]
            /\ flushLog' = Append(flushLog, FlushRecord("tornado", TRUE,
                   IF exc = "none" THEN "NONE" ELSE io_exception_context(exc)))
    /\ sinceFlush' = [sinceFlush EXCEPT !["tornado"] = << >>]
    /\ UNCHANGED << http_open, nextByte, stream, readVars, extVars >>

\* TMessageSenderTransport.flush; ok: sendMessage returns (it raises otherwise)
SenderFlush(ok) ==
    /\ Len(flushLog) < MaxFlushes
    /\ LET msg == wbuf["sender"]
       IN  /\ wbuf' = [wbuf EXCEPT !["sender"] = sender_flush_wbuf(msg, ok)]
           /\ wire' = [wire EXCEPT !["sender"] = Append(@, [data |-> msg, ok |-> ok])]
    /\ flushLog' = Append(flushLog, FlushRecord("sender", TRUE,
           IF ok THEN "NONE" ELSE "NotImplementedError"))
    /\ sinceFlush' = [sinceFlush EXCEPT !["sender"] = << >>]
    /\ UNCHANGED << http_open, nextByte, stream, readVars, extVars >>

\* THttpClient.flush: close() if open, open(), take the buffer, send the POST
\* request; ok: the request and its response went through
HttpFlush(ok) ==
    /\ Len(flushLog) < MaxFlushes
    /\ http_open' = TRUE
    /\ LET data == wbuf["http"]
       IN  /\ wbuf' = [wbuf EXCEPT !["http"] = http_flush_wbuf(data, ok)]
           /\ wire' = [wire EXCEPT !["http"] = Append(@, [data |-> data, ok |-> ok])]
    /\ flushLog' = Append(flushLog, FlushRecord("http", TRUE,
           IF ok THEN "NONE" ELSE "OSError"))
    /\ sinceFlush' = [sinceFlush EXCEPT !["http"] = << >>]
    /\ UNCHANGED << nextByte, stream, readVars, extVars >>

\* THttpClient.close
HttpClose ==
    /\ http_open
    /\ http_open' = FALSE
    /\ UNCHANGED << wbuf, wire, nextByte, sinceFlush, flushLog, stream, readVars, extVars >>

\* TTornadoStreamTransport.open called again: a new IOStream replaces the
\* closed one
Reopen(connected) ==
    /\ stream = "closed"
    /\ stream' = IF connected THEN "open" ELSE "closed"
    /\ stream' # stream
    /\ UNCHANGED << readVars, writeVars, extVars >>

ChunkSizes == 1..2

\* no readFrame call is made; nothing is on the stream
WriteSideInit == Init /\ frames = << >> /\ wellFormed

WriteNext ==
    \/ \E n \in ChunkSizes : TornadoWrite(n)
    \/ \E n \in ChunkSizes : SenderWrite(n)
    \/ \E n \in ChunkSizes : HttpWrite(n)
    \/ \E exc \in WriteExceptions : TornadoFlush(exc)
    \/ \E ok \in BOOLEAN : SenderFlush(ok)
    \/ \E ok \in BOOLEAN : HttpFlush(ok)
    \/ HttpClose
    \/ \E connected \in BOOLEAN : Open(connected)
    \/ CloseStream
    \/ \E connected \in BOOLEAN : Reopen(connected)

WriteSpec == WriteSideInit /\ [][WriteNext]_vars

(***************************************************************************)
(* Fairness for the read side: the IOLoop runs the callback of a resolved   *)
(* future, and a pending read_bytes completes or raises (the holder of the *)
(* lock eventually leaves the with block).                                 *)
(***************************************************************************)
HolderStep(c) ==
    \/ HeaderRead(c)
    \/ HeaderEmpty(c)
    \/ \E exc \in ReadExceptions : ReadRaises(c, exc)
    \/ BodyRead(c)
    \/ BodyReadNegative(c)

LockProgress == \E c \in Callers : Resume(c) \/ HolderStep(c)

\* the lock does not look at the bytes: one frame on the stream, or one frame
\* and a negative header
LiveInit == Init /\ frames = << <<7, 9>> >>

LiveSpec == LiveInit /\ [][Next]_vars /\ WF_vars(LockProgress)

(***************************************************************************)
(* Properties of _Lock and readFrame                                       *)
(***************************************************************************)
\* callers between the return of their acquire() and their release()
Holders == {c \in Callers : pc[c] \in {"header", "body"}}

Waiting == {c \in Callers : pc[c] = "waiting"}

Granted == Range(grantOrder)

\* position of caller c in a history sequence (0 when absent)
PosIn(q, c) == IF c \in Range(q) THEN CHOOSE i \in 1..Len(q) : q[i] = c ELSE 0

\* C1: mutual exclusion of _Lock -- in every reachable state at most one
\* coroutine is between the return of its acquire() and its release().
C1_MutualExclusion == Cardinality(Holders) <= 1

\* one coroutine holds the lock after another released it, a third one waits
C1_Witness ==
    /\ Cardinality(Holders) = 1
    /\ Waiting # {}
    /\ \E c \in Callers : pc[c] = "done" /\ releases[c] = 1

\* C2: frame reads are not interleaved -- between the read_bytes(4) and the
\* read_bytes(frame_length) of one readFrame call the stream sees no read
\* issued by another call.
C2_ReadsNotInterleaved ==
    \A i \in 1..Len(readLog) : \A j \in 1..Len(readLog) :
       ( /\ i < j
         /\ readLog[i].caller = readLog[j].caller
         /\ readLog[i].kind = "header"
         /\ readLog[j].kind = "body" ) => j = i + 1

\* two calls have each read a header and a body while a third call was queued
C2_Witness ==
    /\ Len(readLog) >= 4
    /\ readLog[1].caller # readLog[3].caller
    /\ readLog[2].kind = "body"
    /\ readLog[4].kind = "body"
    /\ Cardinality(Range(enqOrder)) >= 3

\* C3: FIFO grants -- acquire() calls are granted in the order they were made;
\* a call made after a release and before the released waiter resumed is
\* granted after every call made before it.
C3_FifoGrants ==
    /\ IsPrefix(grantOrder, enqOrder)
    /\ \A c \in arrivedInGap \cap Granted :
          \A d \in Callers :
             (PosIn(enqOrder, d) # 0 /\ PosIn(enqOrder, d) < PosIn(enqOrder, c))
                => (PosIn(grantOrder, d) # 0 /\ PosIn(grantOrder, d) < PosIn(grantOrder, c))

\* a call that arrived in the gap between a release and the resumption of the
\* next waiter has been granted, after that waiter
C3_Witness ==
    \E c \in arrivedInGap : c \in Granted /\ blocker[c] # None /\ Len(grantOrder) = 3

\* C4: on every way out of readFrame after the lock was granted the lock is
\* released exactly once, and the release hands the lock to the earliest
\* waiter if there is one, and leaves the lock free otherwise.
C4_ReleasedOnceOnEveryExit ==
    /\ [](\A c \in Callers :
            /\ pc[c] = "done" => releases[c] = 1
            /\ pc[c] # "done" => releases[c] = 0)
    /\ [][\A c \in Callers :
            (pc[c] # "done" /\ pc'[c] = "done") =>
                IF Waiting \ {c} # {}
                THEN LET n == CHOOSE x \in Waiting \ {c} :
                                 \A d \in Waiting \ {c} :
                                    PosIn(enqOrder, x) <= PosIn(enqOrder, d)
                     IN  /\ Head(_waiters') = n
                         /\ blocker[n] \in resolved'
                         /\ \A d \in Waiting \ {c, n} : blocker[d] \notin resolved'
                ELSE ~acquired(_waiters')]_vars

\* calls have left by NOT_OPEN, by a returned frame and by END_OF_FILE, each
\* having released once
C4_Witness ==
    /\ \E c \in Callers : result[c].err = "NOT_OPEN"
    /\ \E c \in Callers : result[c].kind = "frame"
    /\ \E c \in Callers : result[c].err = "END_OF_FILE"
    /\ \A c \in Callers : releases[c] = 1

\* C5: no starvation -- when every holder eventually releases, every
\* coroutine that called acquire() is eventually granted the lock.
C5_NoStarvation ==
    \A c \in Callers : (c \in Range(enqOrder)) ~> (c \in Granted)

\* a call that had to wait behind two others has been granted
C5_Witness ==
    /\ Len(grantOrder) >= 3
    /\ blocker[grantOrder[3]] # None

\* C6 as stated: a call that timed out while waiting in acquire() has no entry
\* in the waiter queue.
C6_TimedOutWaiterRemoved ==
    \A c \in timedOut : pc[c] = "waiting" => c \notin Range(_waiters)

\* C6 as amended: a call whose timeout fired keeps its entry in the waiter
\* queue until it is granted and releases; all calls, the timed-out one
\* included, are granted in the order they were made; a timed-out call
\* releases exactly once.
C6_TimedOutWaiterStays ==
    /\ \A c \in timedOut :
          /\ pc[c] \in {"waiting", "header", "body"} => c \in Range(_waiters)
          /\ pc[c] = "done" => releases[c] = 1 /\ c \notin Range(_waiters)
          /\ pc[c] # "done" => releases[c] = 0
    /\ timedOut # {} => IsPrefix(grantOrder, enqOrder)

\* a call timed out while waiting; it and a call queued behind it were granted
\* in order and have released
C6_Witness ==
    \E c \in Callers : \E d \in Callers :
       /\ timedOutAt[c] = "waiting"
       /\ pc[c] = "done"
       /\ blocker[d] = c
       /\ pc[d] = "done"
       /\ releases[d] = 1

\* callers in the order their read_bytes(4) was issued
RECURSIVE HeaderCallers(_)
HeaderCallers(log) ==
    IF Len(log) = 0 THEN << >>
    ELSE IF Head(log).kind = "header"
         THEN << Head(log).caller >> \o HeaderCallers(Tail(log))
         ELSE HeaderCallers(Tail(log))

FramesFrom(k) == SubSeq(frames, k, Len(frames))

\* C8: on a stream that is a concatenation of frames the k-th call that reads
\* the stream (the k-th granted call, when no call was granted before there
\* was a stream) gets the payload of the k-th frame: its declared length is
\* the number of payload bytes consumed, and no byte is skipped, duplicated or
\* given to another frame.
C8_FramesInOrder ==
    wellFormed =>
       LET hc == HeaderCallers(readLog)
       IN  /\ (\A c \in Callers : result[c].err # "NOT_OPEN") => hc = grantOrder
           /\ \A k \in 1..Len(hc) :
                 /\ pc[hc[k]] = "body" =>
                       /\ k <= Len(frames)
                       /\ frame_length[hc[k]] = Len(frames[k])
                       /\ inbuf = frames[k] \o EncodeFrames(FramesFrom(k + 1))
                 /\ result[hc[k]].kind = "frame" =>
                       /\ k <= Len(frames)
                       /\ result[hc[k]].frame = frames[k]
                       /\ Len(result[hc[k]].frame) = frame_length[hc[k]]
                       /\ (k = Len(hc) \/ pc[hc[k + 1]] = "header") =>
                             inbuf = EncodeFrames(FramesFrom(k + 1))

\* two calls have returned the two frames of a stream, an empty one and a
\* non-empty one
C8_Witness ==
    /\ wellFormed
    /\ Len(frames) = 2
    /\ frames[1] # frames[2]
    /\ Cardinality({c \in Callers : result[c].kind = "frame"}) = 2

\* C9: when the stream is closed before a header byte is available, readFrame
\* raises TTransportException END_OF_FILE and returns no frame.
C9_ClosedBeforeHeaderIsEOF ==
    [][\A c \in Callers :
          (pc[c] = "header" /\ stream = "closed" /\ pc'[c] # "header") =>
             /\ result'[c].kind = "error"
             /\ result'[c].err = "END_OF_FILE"]_vars

\* a call whose header read met a closed stream has raised END_OF_FILE
C9_Witness ==
    \E c \in Callers :
       /\ result[c].cause = "StreamClosedError"
       /\ result[c].err = "END_OF_FILE"
       /\ \A i \in 1..Len(readLog) : readLog[i].caller = c => readLog[i].kind = "header"

(***************************************************************************)
(* Properties of write and flush                                           *)
(***************************************************************************)
\* the flush() calls of transport t among the first j calls
FlushesOf(t, j) == {i \in 1..j : flushLog[i].t = t}

\* the flush() calls of transport t among the first j that called the
\* underlying write/send
AttemptsOf(t, j) == {i \in FlushesOf(t, j) : flushLog[i].attempted}

\* the argument of the underlying write made by the j-th flush() call
WireOf(j) == wire[flushLog[j].t][Cardinality(AttemptsOf(flushLog[j].t, j))].data

BigEndianValue(b) == b[1] * 16777216 + b[2] * 65536 + b[3] * 256 + b[4]

\* the j-th flush() call wrote one frame that carries exactly the bytes w
OneFrameOf(j, w) ==
    /\ flushLog[j].writes = 1
    /\ Len(WireOf(j)) = 4 + Len(w)
    /\ BigEndianValue(SubSeq(WireOf(j), 1, 4)) = Len(w)
    /\ SubSeq(WireOf(j), 5, Len(WireOf(j))) = w

\* only flush() calls that found a stream do stream I/O, one write each
WriteDoesNoIO ==
    Len(wire["tornado"]) = Cardinality(AttemptsOf("tornado", Len(flushLog)))

\* C7 as stated: write() does no stream I/O, and a flush() on an open transport
\* issues one stream write of 4 + N bytes, N being the number of bytes written
\* since the previous flush() call: N big-endian, then those bytes in order.
C7_FrameSincePreviousFlush ==
    /\ WriteDoesNoIO
    /\ \A j \in 1..Len(flushLog) :
          (flushLog[j].t = "tornado" /\ flushLog[j].streamWas = "open")
             => OneFrameOf(j, flushLog[j].written)

\* the bytes written since the last flush() call before the j-th that did not
\* raise NOT_OPEN
RECURSIVE WrittenSinceTaken(_)
WrittenSinceTaken(j) ==
    LET before == FlushesOf(flushLog[j].t, j - 1)
        last == CHOOSE i \in before : \A k \in before : k <= i
    IN  IF before # {} /\ ~flushLog[last].attempted
        THEN WrittenSinceTaken(last) \o flushLog[j].written
        ELSE flushLog[j].written

\* C7 as amended: write() does no stream I/O, and a flush() on an open
\* transport issues one stream write of 4 + N bytes, N being the number of
\* bytes written since the previous flush() call that did not raise NOT_OPEN:
\* N big-endian, then those bytes in order.
C7_FrameSinceBufferTaken ==
    /\ WriteDoesNoIO
    /\ \A j \in 1..Len(flushLog) :
          (flushLog[j].t = "tornado" /\ flushLog[j].streamWas = "open")
             => OneFrameOf(j, WrittenSinceTaken(j))

\* a flush() on an open transport followed one that raised NOT_OPEN, and sent
\* bytes written before and after that one
C7_Witness ==
    /\ Len(flushLog) = 2
    /\ flushLog[1].t = "tornado"
    /\ flushLog[1].raised = "NOT_OPEN"
    /\ Len(flushLog[1].written) > 0
    /\ flushLog[2].t = "tornado"
    /\ flushLog[2].streamWas = "open"
    /\ Len(flushLog[2].written) > 0
    /\ wire["tornado"][1].ok

\* the written bytes among the argument of an underlying write
Payload(t, d) == IF t = "tornado" THEN SubSeq(d, 5, Len(d)) ELSE d

\* C10: every flush replaces the write buffer by an empty one before it calls
\* the underlying write/send: the buffer is empty after a flush whose write
\* failed, a later flush carries only bytes written after it, and no byte is
\* carried by two flushes.
C10_BufferTakenBeforeWrite ==
    /\ \A j \in 1..Len(flushLog) :
          flushLog[j].attempted => flushLog[j].wbufAfter = << >>
    /\ \A t \in Transports : \A i \in 1..Len(wire[t]) : \A j \in 1..Len(wire[t]) :
          i < j =>
             \A x \in Range(Payload(t, wire[t][i].data)) :
                \A y \in Range(Payload(t, wire[t][j].data)) : x < y

\* a flush whose write failed carried bytes, and so did the next flush of the
\* same transport
C10_Witness ==
    \E t \in Transports :
       /\ Len(wire[t]) = 2
       /\ ~wire[t][1].ok
       /\ Len(Payload(t, wire[t][1].data)) > 0
       /\ Len(Payload(t, wire[t][2].data)) > 0


\* ---------------------------------------------------------------------------
\* ThriftSASLClientProtocol (TTwisted.py): the negotiation coroutine, the
\* framing of Int32StringReceiver underneath it, and the secured frames
\* ---------------------------------------------------------------------------

MaxServerMsgs == 2

MaxDispatch == 1

MaxPartial == 1

START == 1

OK == 2

BAD == 3

ERROR == 4

COMPLETE == 5

\* self.sasl.mechanism, the body of the START message ("P")
mechanism == << 80 >>

\* the result of the first self.sasl.process()
initial_message == << 1 >>

\* self.sasl.process(challenge): a response that depends on the challenge
process(chal) == << 10 + Len(chal) >> \o chal

\* self.sasl.wrap: a security layer that tags the message and changes every byte
wrap(msg) == << 200 >> \o [i \in 1..Len(msg) |-> (msg[i] + 1) % 256]

\* self.sasl.unwrap: the inverse of the security layer on what wrap produced
unwrap(enc) ==
    IF enc = << >> THEN << >>
    ELSE [i \in 1..(Len(enc) - 1) |-> (enc[i + 1] + 255) % 256]

\* Int32StringReceiver.sendString: the string behind its 4-byte length
sendString(string) == pack_i(Len(string)) \o string

\* (variant: the inner length is left out of the secured frame)
dispatch_no_inner_length(msg) == sendString(wrap(msg))

\* ThriftSASLClientProtocol.dispatch: the bytes written for one message
dispatch(msg) == sendString(pack_i(Len(wrap(msg))) \o wrap(msg))

\* (variant: the length is written before the status)
_sendSASLMessage_length_first(status, body) == pack_i(Len(body)) \o << status >> \o body

\* _sendSASLMessage: struct.pack(">BI", status, len(body)) + body
_sendSASLMessage(status, body) == << status >> \o pack_i(Len(body)) \o body

SubSeqFrom(s, k) == SubSeq(s, k, Len(s))

\* a message of the server: a negotiation message or a secured frame
SaslMsg(status, body) == [kind |-> "sasl", status |-> status, body |-> body]

AppMsg(body) == [kind |-> "app", status |-> 0, body |-> body]

AppMessages == {<< 7 >>}

ServerMessages ==
    {SaslMsg(OK, << 9 >>), SaslMsg(BAD, << >>), SaslMsg(ERROR, << >>),
     SaslMsg(COMPLETE, << >>)}
    \cup {AppMsg(m) : m \in AppMessages}

\* the bytes of a server message: (status, length, payload) during the
\* negotiation, the framing of dispatch afterwards
ServerBytes(msg) ==
    IF msg.kind = "sasl" THEN << msg.status >> \o pack_i(Len(msg.body)) \o msg.body
    ELSE dispatch(msg.body)

\* the fields of the protocol object a dataReceived call reads and writes; exc
\* is the exception that leaves the call, lose that loseConnection was called
Protocol ==
    [pc |-> sasl_pc, deferred |-> _sasl_negotiation_deferred,
     status |-> _sasl_negotiation_status, unprocessed |-> _unprocessed,
     chal |-> challenge, client |-> client, started |-> started,
     negotiated |-> negotiated, unwrapped |-> unwrapped, delivered |-> delivered,
     errors |-> errors, exc |-> "none", lose |-> FALSE]

\* ThriftClientProtocol.connectionMade: the client is created and started fires
ThriftClientProtocol_connectionMade(p) == [p EXCEPT !.client = TRUE, !.started = TRUE]

\* (variant: COMPLETE is accepted whatever the local SASL client reports)
negotiation_complete_unchecked(p) ==
    ThriftClientProtocol_connectionMade(
        [p EXCEPT !.deferred = "None", !.pc = "completed"])

\* connectionMade, the branch of COMPLETE: an error unless self.sasl.complete,
\* else the deferred is dropped and the client is made
negotiation_complete(p) ==
    IF ~sasl_complete
    THEN [p EXCEPT !.pc = "failed",
                   !.errors = Append(@, "TTransportException")]
    ELSE ThriftClientProtocol_connectionMade(
             [p EXCEPT !.deferred = "None", !.pc = "completed"])

\* (variant: every status other than COMPLETE is answered as a challenge)
negotiation_step_answers_all(p, status, string) ==
    IF status = COMPLETE THEN negotiation_complete(p)
    ELSE [p EXCEPT !.pc = "process", !.chal = string]

\* connectionMade resumed with (status, challenge): the body of its while loop
\* up to the next yield
negotiation_step(p, status, string) ==
    IF status = OK THEN [p EXCEPT !.pc = "process", !.chal = string]
    ELSE IF status = COMPLETE THEN negotiation_complete(p)
    ELSE [p EXCEPT !.pc = "failed",
                   !.errors = Append(@, "TTransportException")]

\* (variant: a fired Deferred fires again)
deferred_callback_refires(p, response) ==
    negotiation_step(
        [p EXCEPT !.deferred = "fired",
                  !.negotiated = Append(@, response)],
        response[1], response[2])

\* Deferred.callback: a fired Deferred raises AlreadyCalledError, a pending one
\* fires and resumes the coroutine that waits on it
deferred_callback(p, response) ==
    IF p.deferred = "fired"
    THEN [p EXCEPT !.exc = "AlreadyCalledError",
                   !.errors = Append(@, "AlreadyCalledError")]
    ELSE negotiation_step(
             [p EXCEPT !.deferred = "fired",
                       !.negotiated = Append(@, response)],
             response[1], response[2])

\* ThriftClientProtocol.stringReceived: the frame goes to the recv_ method of
\* self.client; with self.client None the attribute lookup raises
ThriftClientProtocol_stringReceived(p, frame) ==
    IF p.client THEN [p EXCEPT !.delivered = Append(@, frame)]
    ELSE [p EXCEPT !.exc = "AttributeError",
                   !.errors = Append(@, "AttributeError")]

\* (variant: a string is a negotiation message only while the Deferred is pending)
stringReceived_while_pending(p, string) ==
    IF p.deferred = "pending"
    THEN deferred_callback(p, << p.status, string >>)
    ELSE ThriftClientProtocol_stringReceived(
             [p EXCEPT !.unwrapped = Append(@, [arg |-> SubSeqFrom(string, 5),
                                                pc |-> p.pc])],
             unwrap(SubSeqFrom(string, 5)))

\* ThriftSASLClientProtocol.stringReceived
stringReceived(p, string) ==
    IF p.deferred # "None"
    THEN deferred_callback(p, << p.status, string >>)
    ELSE ThriftClientProtocol_stringReceived(
             [p EXCEPT !.unwrapped = Append(@, [arg |-> SubSeqFrom(string, 5),
                                                pc |-> p.pc])],
             unwrap(SubSeqFrom(string, 5)))

\* Int32StringReceiver.dataReceived from offset in alldata: every complete
\* string goes to stringReceived, the rest stays in the buffer; a length above
\* MAX_LENGTH (2^31 - 1: first byte 128 or more) loses the connection
RECURSIVE IntNStringReceiver_dataReceived(_, _, _)
IntNStringReceiver_dataReceived(p, alldata, offset) ==
    IF Len(alldata) < offset + 4
    THEN [p EXCEPT !.unprocessed = SubSeqFrom(alldata, offset + 1)]
    ELSE IF alldata[offset + 1] >= 128
    THEN [p EXCEPT !.unprocessed = alldata, !.lose = TRUE]
    ELSE LET length == unpack_i(SubSeq(alldata, offset + 1, offset + 4))
             messageEnd == offset + 4 + length
         IN  IF Len(alldata) < messageEnd
             THEN [p EXCEPT !.unprocessed = SubSeqFrom(alldata, offset + 1)]
             ELSE LET q == stringReceived(p, SubSeq(alldata, offset + 5, messageEnd))
                  IN  IF q.exc # "none"
                      THEN [q EXCEPT !.unprocessed = alldata]
                      ELSE IntNStringReceiver_dataReceived(q, alldata, messageEnd)

\* (variant: the frames behind a negotiation message in one call are dropped)
dataReceived_drops_frames(p, data) ==
    IF p.deferred # "None"
    THEN [IntNStringReceiver_dataReceived([p EXCEPT !.status = data[1]],
                                          p.unprocessed \o Tail(data), 0)
              EXCEPT !.delivered = p.delivered]
    ELSE IntNStringReceiver_dataReceived(p, p.unprocessed \o data, 0)

\* ThriftSASLClientProtocol.dataReceived: while the negotiation deferred is
\* set, the first byte of the data is saved as status and the rest is framed
dataReceived(p, data) ==
    IF p.deferred # "None"
    THEN IntNStringReceiver_dataReceived([p EXCEPT !.status = data[1]],
                                         p.unprocessed \o Tail(data), 0)
    ELSE IntNStringReceiver_dataReceived(p, p.unprocessed \o data, 0)

\* ThriftSASLClientProtocol.connectionLost: the client, if there is one, is dropped
connectionLost(c) == FALSE

\* one transport.write call: the bytes, and which method wrote them
Written(kind, bytes) == [kind |-> kind, bytes |-> bytes]

\* connectionMade up to its first yield: START with the mechanism is written and
\* self.sasl.process() is handed to the thread pool
ConnectionMade ==
    /\ transport = "no"
    /\ transport' = "open"
    /\ written' = Append(written, Written("sasl", _sendSASLMessage(START, mechanism)))
    /\ sasl_pc' = "initial_process"
    /\ UNCHANGED << _sasl_negotiation_deferred, _sasl_negotiation_status, _unprocessed,
                    sasl_complete, challenge, client, started, net, serverSent,
                    outOfTurn, chunked, negotiated, unwrapped, delivered, dispatched,
                    errors >>
    /\ UNCHANGED << readVars, stream, writeVars, codecVars, serverVars, sideVars >>

\* _receiveSASLMessage: a new Deferred, the saved status forgotten
_receiveSASLMessage ==
    /\ _sasl_negotiation_deferred' = "pending"
    /\ _sasl_negotiation_status' = None

\* the thread pool returns the initial response: OK with it is written and the
\* loop waits for the first message of the server
InitialProcessDone(done) ==
    /\ sasl_pc = "initial_process"
    /\ sasl_complete' = done
    /\ written' = Append(written, Written("sasl", _sendSASLMessage(OK, initial_message)))
    /\ _receiveSASLMessage
    /\ sasl_pc' = "receive"
    /\ UNCHANGED << _unprocessed, challenge, client, started, transport, net,
                    serverSent, outOfTurn, chunked, negotiated, unwrapped, delivered,
                    dispatched, errors >>
    /\ UNCHANGED << readVars, stream, writeVars, codecVars, serverVars, sideVars >>

\* the thread pool returns the response to a challenge: OK with it is written
\* and the loop waits for the next message of the server
ProcessDone(done) ==
    /\ sasl_pc = "process"
    /\ sasl_complete' = (sasl_complete \/ done)
    /\ written' = Append(written, Written("sasl", _sendSASLMessage(OK, process(challenge))))
    /\ _receiveSASLMessage
    /\ sasl_pc' = "receive"
    /\ UNCHANGED << _unprocessed, challenge, client, started, transport, net,
                    serverSent, outOfTurn, chunked, negotiated, unwrapped, delivered,
                    dispatched, errors >>
    /\ UNCHANGED << readVars, stream, writeVars, codecVars, serverVars, sideVars >>

\* self.sasl.process raises in the thread pool: the exception leaves connectionMade
ProcessRaises ==
    /\ sasl_pc \in {"initial_process", "process"}
    /\ sasl_pc' = "failed"
    /\ errors' = Append(errors, "SASLException")
    /\ UNCHANGED << _sasl_negotiation_deferred, _sasl_negotiation_status, _unprocessed,
                    sasl_complete, challenge, client, started, transport, written, net,
                    serverSent, outOfTurn, chunked, negotiated, unwrapped, delivered,
                    dispatched >>
    /\ UNCHANGED << readVars, stream, writeVars, codecVars, serverVars, sideVars >>

\* the server keeps its turn: it answers the START and initial message, and
\* then every response, with one negotiation message, sent when the client
\* waits for it and nothing is in flight; it sends frames once the client
\* completed the negotiation
Awaited(msg) ==
    IF msg.kind = "sasl"
    THEN /\ sasl_pc = "receive" /\ _sasl_negotiation_deferred = "pending" /\ net = << >>
         /\ Cardinality({i \in 1..Len(serverSent) : serverSent[i].kind = "sasl"}) + 2
                <= Cardinality({i \in 1..Len(written) : written[i].kind = "sasl"})
    ELSE sasl_pc = "completed"

\* the server sends a message
ServerSend(msg) ==
    /\ transport = "open"
    /\ Len(serverSent) < MaxServerMsgs
    /\ net' = net \o ServerBytes(msg)
    /\ serverSent' = Append(serverSent, msg)
    /\ outOfTurn' = (outOfTurn \/ ~Awaited(msg))
    /\ UNCHANGED << sasl_pc, _sasl_negotiation_deferred, _sasl_negotiation_status,
                    _unprocessed, sasl_complete, challenge, client, started, transport,
                    written, chunked, negotiated, unwrapped, delivered, dispatched,
                    errors >>
    /\ UNCHANGED << readVars, stream, writeVars, codecVars, serverVars, sideVars >>

\* the reactor gives the first k bytes in flight to dataReceived; an exception
\* that leaves dataReceived, or loseConnection, ends the connection, and
\* connectionLost runs
DataReceived(k) ==
    /\ transport = "open"
    /\ k \in 1..Len(net)
    /\ LET p == dataReceived(Protocol, SubSeq(net, 1, k))
           lost == p.exc # "none" \/ p.lose
       IN  /\ sasl_pc' = p.pc
           /\ _sasl_negotiation_deferred' = p.deferred
           /\ _sasl_negotiation_status' = p.status
           /\ _unprocessed' = p.unprocessed
           /\ challenge' = p.chal
           /\ started' = p.started
           /\ negotiated' = p.negotiated
           /\ unwrapped' = p.unwrapped
           /\ delivered' = p.delivered
           /\ errors' = p.errors
           /\ transport' = IF lost THEN "lost" ELSE "open"
           /\ client' = IF lost /\ p.client THEN connectionLost(p.client) ELSE p.client
    /\ k < Len(net) => chunked < MaxPartial
    /\ net' = SubSeqFrom(net, k + 1)
    /\ chunked' = IF k < Len(net) THEN chunked + 1 ELSE chunked
    /\ UNCHANGED << sasl_complete, written, serverSent, outOfTurn, dispatched >>
    /\ UNCHANGED << readVars, stream, writeVars, codecVars, serverVars, sideVars >>

\* the client calls dispatch(msg) through the TCallbackTransport that
\* ThriftClientProtocol.connectionMade gave it: the message is wrapped and
\* written behind its two lengths
Dispatch(msg) ==
    /\ started
    /\ Len(dispatched) < MaxDispatch
    /\ written' = Append(written, Written("frame", dispatch(msg)))
    /\ dispatched' = Append(dispatched, [msg |-> msg, pc |-> sasl_pc])
    /\ UNCHANGED << sasl_pc, _sasl_negotiation_deferred, _sasl_negotiation_status,
                    _unprocessed, sasl_complete, challenge, client, started, transport,
                    net, serverSent, outOfTurn, chunked, negotiated, unwrapped,
                    delivered, errors >>
    /\ UNCHANGED << readVars, stream, writeVars, codecVars, serverVars, sideVars >>

\* the connection ends: connectionLost runs
ConnectionLost ==
    /\ transport = "open"
    /\ transport' = "lost"
    /\ client' = IF client THEN connectionLost(client) ELSE client
    /\ UNCHANGED << sasl_pc, _sasl_negotiation_deferred, _sasl_negotiation_status,
                    _unprocessed, sasl_complete, challenge, started, written, net,
                    serverSent, outOfTurn, chunked, negotiated, unwrapped, delivered,
                    dispatched, errors >>
    /\ UNCHANGED << readVars, stream, writeVars, codecVars, serverVars, sideVars >>

SaslSideInit == Init /\ stream = "none" /\ frames = << >> /\ wellFormed

SaslNext ==
    \/ ConnectionMade
    \/ \E done \in BOOLEAN : InitialProcessDone(done)
    \/ \E done \in BOOLEAN : ProcessDone(done)
    \/ ProcessRaises
    \/ \E msg \in ServerMessages : ServerSend(msg)
    \/ \E k \in 1..Len(net) : DataReceived(k)
    \/ \E msg \in AppMessages : Dispatch(msg)
    \/ ConnectionLost

SaslSpec == SaslSideInit /\ [][SaslNext]_vars

\* ---------------------------------------------------------------------------
\* Properties of the SASL negotiation
\* ---------------------------------------------------------------------------

\* the negotiation messages in a list of server messages, as (status, payload)
RECURSIVE SaslResponses(_)
SaslResponses(msgs) ==
    IF msgs = << >> THEN << >>
    ELSE IF Head(msgs).kind = "sasl"
    THEN << << Head(msgs).status, Head(msgs).body >> >> \o SaslResponses(Tail(msgs))
    ELSE SaslResponses(Tail(msgs))

\* the loop got COMPLETE as its last message while the SASL client was complete
CompletedByServer ==
    /\ negotiated # << >>
    /\ negotiated[Len(negotiated)][1] = COMPLETE
    /\ sasl_complete

\* C11: the client is created and started fires only after COMPLETE was
\* received while the local SASL client reports completion; before that no
\* inbound string is passed to sasl.unwrap or to a recv_ handler.
C11_NoFrameBeforeCompletion ==
    /\ (client \/ started) => CompletedByServer
    /\ \A i \in 1..Len(unwrapped) : unwrapped[i].pc = "completed"
    /\ delivered # << >> => started

\* the negotiation messages the client wrote, in order
SaslWritten == SelectSeq(written, LAMBDA w : w.kind = "sasl")

\* the frames the client wrote through dispatch, in order
FramesWritten == SelectSeq(written, LAMBDA w : w.kind = "frame")

\* a negotiation message on the wire: status byte, 4-byte big-endian length, body
OnWire(status, body) ==
    << status, 0, 0, 0, Len(body) >> \o body

\* C12: START with the mechanism and OK with the initial response are the
\* first two messages the client writes, in that order, and the negotiation
\* takes no message of the server before both are written.
C12_StartThenInitialResponse ==
    /\ transport # "no" => written # << >>
    /\ written # << >> => written[1] = Written("sasl", OnWire(START, mechanism))
    /\ Len(written) >= 2 => written[2] = Written("sasl", OnWire(OK, initial_message))
    /\ Len(written) < 2 => negotiated = << >> /\ _sasl_negotiation_deferred = "None"

C12_Witness ==
    /\ Len(written) >= 2
    /\ negotiated # << >>

\* C13: every OK(challenge) the loop receives is answered by exactly one
\* OK(process(challenge)) and the negotiation goes on; after the first two
\* messages the client writes a negotiation message only after it received one
\* more message of the server.
C13_ChallengeResponseAlternate ==
    LET n == Len(SaslWritten) - 2
    IN  Len(SaslWritten) >= 2 =>
            /\ n <= Len(negotiated)
            /\ Len(negotiated) <= n + 1
            /\ \A k \in 1..n :
                   /\ negotiated[k][1] = OK
                   /\ SaslWritten[k + 2].bytes = OnWire(OK, process(negotiated[k][2]))
            /\ (Len(negotiated) = n + 1 /\ negotiated[n + 1][1] = OK) =>
                   \/ sasl_pc = "process"
                   \/ sasl_pc = "failed" /\ \E i \in 1..Len(errors) : errors[i] = "SASLException"
            /\ sasl_pc = "receive" => Len(negotiated) = n

C13_Witness ==
    /\ Len(SaslWritten) = 3
    /\ Len(negotiated) = 2
    /\ negotiated[1] = << OK, << 9 >> >>

\* the loop received COMPLETE while self.sasl.complete was false
PrematureComplete ==
    /\ negotiated # << >>
    /\ negotiated[Len(negotiated)][1] = COMPLETE
    /\ ~sasl_complete

\* C14: when COMPLETE arrives while the local SASL client is not complete, the
\* negotiation fails with a TTransportException and stays failed: the client
\* is not created and started does not fire, whatever arrives later.
C14_PrematureCompleteFails ==
    PrematureComplete =>
        /\ sasl_pc = "failed"
        /\ \E i \in 1..Len(errors) : errors[i] = "TTransportException"
        /\ ~client
        /\ ~started

C14_Witness ==
    /\ PrematureComplete
    /\ Len(serverSent) = 2
    /\ net = << >>
    /\ errors = << "TTransportException", "AlreadyCalledError" >>

\* the loop received BAD or ERROR
RejectedByServer ==
    \E i \in 1..Len(negotiated) : negotiated[i][1] \in {BAD, ERROR}

\* C15: after BAD or ERROR arrived during the negotiation, the negotiation has
\* failed and the client does not leave the connection open. (The handler that
\* took the message has returned and the coroutine has ended, so nothing of the
\* client is left to run that could close it later.)
C15_RejectionClosesConnection ==
    RejectedByServer =>
        /\ sasl_pc = "failed"
        /\ transport # "open"

\* C16: completed and failed are terminal. Once the negotiation completed, no
\* inbound bytes are taken as a negotiation message (no status is saved, no
\* response reaches the loop) and no negotiation message is written; once it
\* failed, nothing makes it complete and no client is created.
C16_CompleteAndFailedTerminal ==
    [][/\ sasl_pc = "completed" =>
              /\ sasl_pc' = "completed"
              /\ _sasl_negotiation_deferred' = "None"
              /\ _sasl_negotiation_status' = _sasl_negotiation_status
              /\ negotiated' = negotiated
              /\ SaslWritten' = SaslWritten
       /\ sasl_pc = "failed" =>
              /\ sasl_pc' = "failed"
              /\ ~client'
              /\ ~started']_vars

C16_Witness ==
    /\ sasl_pc = "completed"
    /\ Len(serverSent) = 2
    /\ net = << >>
    /\ delivered # << >>

\* C17: after BAD or ERROR failed the negotiation, no frame is wrapped and
\* written and no inbound payload is unwrapped or delivered; an inbound string
\* ends in an error and the loss of the connection.
C17_NoFrameAfterFailure ==
    [][RejectedByServer =>
           /\ dispatched' = dispatched
           /\ FramesWritten' = FramesWritten
           /\ unwrapped' = unwrapped
           /\ delivered' = delivered
           /\ errors' # errors =>
                  /\ errors' = Append(errors, "AlreadyCalledError")
                  /\ transport' = "lost"]_vars

C17_Witness ==
    /\ RejectedByServer
    /\ Len(serverSent) = 2
    /\ net = << >>
    /\ errors = << "TTransportException", "AlreadyCalledError" >>

\* the secured frame of a message: the outer length, the 4-byte big-endian
\* length of the wrapped message, the wrapped message
SecuredFrame(msg) ==
    << 0, 0, 0, 4 + Len(wrap(msg)) >> \o << 0, 0, 0, Len(wrap(msg)) >> \o wrap(msg)

\* the bodies of the frames in a list of server messages
RECURSIVE AppBodies(_)
AppBodies(msgs) ==
    IF msgs = << >> THEN << >>
    ELSE IF Head(msgs).kind = "app"
    THEN << Head(msgs).body >> \o AppBodies(Tail(msgs))
    ELSE AppBodies(Tail(msgs))

\* C18: after the negotiation every dispatched message m is written as one
\* outer frame that holds the length of wrap(m) and wrap(m); every inbound
\* frame payload p is delivered as unwrap(p[4:]); the frames a peer dispatched
\* are delivered unchanged, however the transport splits them.
C18_SecuredFrameRoundTrip ==
    /\ Len(FramesWritten) = Len(dispatched)
    /\ \A i \in 1..Len(dispatched) :
           /\ FramesWritten[i].bytes = SecuredFrame(dispatched[i].msg)
           /\ dispatched[i].pc = "completed"
    /\ Len(delivered) <= Len(unwrapped)
    /\ \A i \in 1..Len(delivered) : delivered[i] = unwrap(unwrapped[i].arg)
    /\ (~outOfTurn /\ transport = "open" /\ net = << >>) =>
           delivered = AppBodies(serverSent)

C18_Witness ==
    /\ dispatched # << >>
    /\ delivered = << << 7 >> >>
    /\ chunked > 0

\* C19: a negotiation message of the server reaches the negotiation loop with
\* its own status and its whole payload once all its bytes were given to
\* dataReceived, however they were split over the calls.
C19_SplitMessageDelivered ==
    (~outOfTurn /\ transport = "open" /\ net = << >>) =>
        negotiated = SaslResponses(serverSent)

\* the same for messages that arrive in one piece (holds)
UnsplitMessageDelivered ==
    chunked = 0 => C19_SplitMessageDelivered

\* ---------------------------------------------------------------------------
\* TProtocolBase (TProtocol.py): the type-driven read/write engine. A protocol
\* is a stream of tokens, one for each call of a primitive writer; a primitive
\* reader takes the token at the read position.
\* ---------------------------------------------------------------------------

TType_STOP == 0

TType_VOID == 1

TType_BOOL == 2

TType_BYTE == 3

TType_DOUBLE == 4

TType_I16 == 6

TType_I32 == 8

TType_I64 == 10

TType_STRING == 11

TType_STRUCT == 12

TType_MAP == 13

TType_SET == 14

TType_LIST == 15

TType_UUID == 16

TType_UTF16 == 17

Handler(reader, writer, is_container) ==
    [reader |-> reader, writer |-> writer, is_container |-> is_container]

NoHandler == Handler("None", "None", FALSE)

\* _TTYPE_HANDLERS, entry ttype + 1 for the type ttype
_TTYPE_HANDLERS ==
    << NoHandler,
       NoHandler,
       Handler("readBool", "writeBool", FALSE),
       Handler("readByte", "writeByte", FALSE),
       Handler("readDouble", "writeDouble", FALSE),
       NoHandler,
       Handler("readI16", "writeI16", FALSE),
       NoHandler,
       Handler("readI32", "writeI32", FALSE),
       NoHandler,
       Handler("readI64", "writeI64", FALSE),
       Handler("readString", "writeString", FALSE),
       Handler("readContainerStruct", "writeContainerStruct", TRUE),
       Handler("readContainerMap", "writeContainerMap", TRUE),
       Handler("readContainerSet", "writeContainerSet", TRUE),
       Handler("readContainerList", "writeContainerList", TRUE),
       Handler("readUuid", "writeUuid", FALSE),
       NoHandler >>

\* the specs of the generated code: None, 'BINARY', (ttype, tspec, is_immutable),
\* (ktype, kspec, vtype, vspec, is_immutable), (obj_class, obj_spec)
NoneSpec == [kind |-> "None"]

BinarySpec == [kind |-> "BINARY"]

ElemSpec(ttype, tspec, is_immutable) ==
    [kind |-> "elem", ttype |-> ttype, tspec |-> tspec, is_immutable |-> is_immutable]

MapSpec(ktype, kspec, vtype, vspec, is_immutable) ==
    [kind |-> "map", ktype |-> ktype, kspec |-> kspec, vtype |-> vtype,
     vspec |-> vspec, is_immutable |-> is_immutable]

StructSpec(obj_class, obj_spec) ==
    [kind |-> "struct", obj_class |-> obj_class, obj_spec |-> obj_spec]

\* an entry of a thrift_spec: (fid, ftype, fname, fspec, default), or None
Field(fid, ftype, fname, fspec) ==
    [isNone |-> FALSE, fid |-> fid, ftype |-> ftype, fname |-> fname, fspec |-> fspec]

NoField == [isNone |-> TRUE, fid |-> 0, ftype |-> 0, fname |-> "", fspec |-> NoneSpec]

\* an attribute of an object: None, or a value
Unset == [isNone |-> TRUE, val |-> 0]

Attr(val) == [isNone |-> FALSE, val |-> val]

\* an object of a generated class: one attribute for each entry of its thrift_spec
Object(obj_class, attrs) == [obj_class |-> obj_class, attrs |-> attrs]

\* obj_class(): every attribute None
NewObject(obj_class, thrift_spec) ==
    Object(obj_class, [i \in 1..Len(thrift_spec) |-> Unset])

\* a list (mutable) or a tuple (immutable) of elements
ListValue(is_tuple, elems) == [is_tuple |-> is_tuple, elems |-> elems]

\* the elements of a set, or the items of a dict, in the order of iteration
RECURSIVE Iterate(_)
Iterate(S) ==
    IF S = {} THEN << >>
    ELSE LET x == CHOOSE y \in S : TRUE
         IN  << x >> \o Iterate(S \ {x})

\* bytes(str_val, 'utf-8') for code points below 2048
RECURSIVE utf8_encode(_)
utf8_encode(str) ==
    IF str = << >> THEN << >>
    ELSE (IF Head(str) < 128 THEN << Head(str) >>
          ELSE << 192 + (Head(str) \div 64), 128 + (Head(str) % 64) >>)
         \o utf8_encode(Tail(str))

\* the length of the well-formed UTF-8 sequence at the head of b, 0 if there
\* is none (a stray continuation byte, an overlong form, a surrogate, a code
\* point above 10FFFF, a truncated sequence)
utf8_sequence(b) ==
    LET cont(i, lo, hi) == Len(b) >= i /\ b[i] >= lo /\ b[i] <= hi
    IN  IF b[1] < 128 THEN 1
        ELSE IF b[1] >= 194 /\ b[1] <= 223 /\ cont(2, 128, 191) THEN 2
        ELSE IF b[1] = 224 /\ cont(2, 160, 191) /\ cont(3, 128, 191) THEN 3
        ELSE IF b[1] >= 225 /\ b[1] <= 236 /\ cont(2, 128, 191) /\ cont(3, 128, 191) THEN 3
        ELSE IF b[1] = 237 /\ cont(2, 128, 159) /\ cont(3, 128, 191) THEN 3
        ELSE IF b[1] >= 238 /\ b[1] <= 239 /\ cont(2, 128, 191) /\ cont(3, 128, 191) THEN 3
        ELSE IF b[1] = 240 /\ cont(2, 144, 191) /\ cont(3, 128, 191) /\ cont(4, 128, 191)
        THEN 4
        ELSE IF b[1] >= 241 /\ b[1] <= 243 /\ cont(2, 128, 191) /\ cont(3, 128, 191)
                /\ cont(4, 128, 191)
        THEN 4
        ELSE IF b[1] = 244 /\ cont(2, 128, 143) /\ cont(3, 128, 191) /\ cont(4, 128, 191)
        THEN 4
        ELSE 0

\* bytes.decode('utf-8') does not raise UnicodeDecodeError
RECURSIVE utf8_valid(_)
utf8_valid(b) ==
    IF b = << >> THEN TRUE
    ELSE /\ utf8_sequence(b) > 0
         /\ utf8_valid(SubSeq(b, utf8_sequence(b) + 1, Len(b)))

\* bytes.decode('utf-8') of well-formed bytes
RECURSIVE utf8_decode(_)
utf8_decode(b) ==
    IF b = << >> THEN << >>
    ELSE LET n == utf8_sequence(b)
             point == IF n = 1 THEN b[1]
                      ELSE IF n = 2 THEN (b[1] - 192) * 64 + (b[2] - 128)
                      ELSE IF n = 3
                      THEN (b[1] - 224) * 4096 + (b[2] - 128) * 64 + (b[3] - 128)
                      ELSE (b[1] - 240) * 262144 + (b[2] - 128) * 4096
                           + (b[3] - 128) * 64 + (b[4] - 128)
         IN  << point >> \o utf8_decode(SubSeq(b, n + 1, Len(b)))

\* _ttype_handlers: 'BINARY' goes with STRING only; a type past the table has no
\* handler, a negative one indexes the table from its end
_ttype_handlers(ttype, spec) ==
    IF spec.kind = "BINARY"
    THEN IF ttype # TType_STRING THEN Handler("raise", "raise", FALSE)
         ELSE Handler("readBinary", "writeBinary", FALSE)
    ELSE IF ttype >= Len(_TTYPE_HANDLERS) THEN NoHandler
    ELSE IF ttype >= 0 THEN _TTYPE_HANDLERS[ttype + 1]
    ELSE IF ttype >= -Len(_TTYPE_HANDLERS) THEN _TTYPE_HANDLERS[Len(_TTYPE_HANDLERS) + ttype + 1]
    ELSE Handler("raise", "raise", FALSE)

\* the outcome of a write: the tokens written, and the exception raised, if any
Wrote(toks) == [err |-> "none", toks |-> toks]

WriteRaised(err, toks) == [err |-> err, toks |-> toks]

\* w, and then the tokens of v unless w raised (w and v are computed once)
WriteThen(w, v) ==
    CHOOSE o_a \in
        {IF a.err # "none" THEN a
         ELSE CHOOSE o_b \in
                  {[err |-> b.err, toks |-> a.toks \o b.toks] :
                       b \in {v}} : TRUE :
             a \in {w}} : TRUE

RECURSIVE write_each(_, _, _)
RECURSIVE writeStruct(_, _)
RECURSIVE writeContainerList(_, _)
RECURSIVE writeContainerSet(_, _)
RECURSIVE writeContainerMap(_, _)

\* writeContainerStruct: val.write(self), which writes val by the thrift_spec
\* of its class
writeContainerStruct(val, spec) == writeStruct(val, spec.obj_spec)

\* the call of the writer method named writer_name
call_writer(writer_name, v, espec) ==
    CASE writer_name = "writeBool" -> Wrote(<< << "Bool", v >> >>)
      [] writer_name = "writeByte" -> Wrote(<< << "Byte", v >> >>)
      [] writer_name = "writeDouble" -> Wrote(<< << "Double", v >> >>)
      [] writer_name = "writeI16" -> Wrote(<< << "I16", v >> >>)
      [] writer_name = "writeI32" -> Wrote(<< << "I32", v >> >>)
      [] writer_name = "writeI64" -> Wrote(<< << "I64", v >> >>)
      [] writer_name = "writeString" -> Wrote(<< << "Binary", utf8_encode(v) >> >>)
      [] writer_name = "writeBinary" -> Wrote(<< << "Binary", v >> >>)
      [] writer_name = "writeUuid" -> Wrote(<< << "Uuid", v >> >>)
      [] writer_name = "writeContainerStruct" -> writeContainerStruct(v, espec)
      [] writer_name = "writeContainerMap" -> writeContainerMap(v, espec)
      [] writer_name = "writeContainerSet" -> writeContainerSet(v, espec)
      [] writer_name = "writeContainerList" -> writeContainerList(v, espec)

\* the loop of _write_by_ttype: one write for each of vals, in order
write_each(writer_name, vals, espec) ==
    IF vals = << >> THEN Wrote(<< >>)
    ELSE WriteThen(call_writer(writer_name, Head(vals), espec),
                   write_each(writer_name, Tail(vals), espec))

\* _write_by_ttype, run to its end: INVALID_DATA for a type without a writer
_write_by_ttype(ttype, vals, spec, espec) ==
    LET writer_name == _ttype_handlers(ttype, espec).writer
    IN  IF writer_name \in {"None", "raise"} THEN WriteRaised("INVALID_DATA", << >>)
        ELSE write_each(writer_name, vals, espec)

\* (variant: the declared size is one less than the number of elements)
writeContainerList_short_count(val, spec) ==
    WriteThen(Wrote(<< << "ListBegin", spec.ttype, Len(val.elems) - 1 >> >>),
    WriteThen(_write_by_ttype(spec.ttype, val.elems, spec, spec.tspec),
              Wrote(<< << "ListEnd" >> >>)))

writeContainerList(val, spec) ==
    WriteThen(Wrote(<< << "ListBegin", spec.ttype, Len(val.elems) >> >>),
    WriteThen(_write_by_ttype(spec.ttype, val.elems, spec, spec.tspec),
              Wrote(<< << "ListEnd" >> >>)))

writeContainerSet(val, spec) ==
    WriteThen(Wrote(<< << "SetBegin", spec.ttype, Cardinality(val) >> >>),
    WriteThen(_write_by_ttype(spec.ttype, Iterate(val), spec, spec.tspec),
              Wrote(<< << "SetEnd" >> >>)))

\* the zip of the key writes and the value writes: key, value, key, value, ...;
\* the writer of the values is looked up when the first value is written
RECURSIVE write_items(_, _)
write_items(items, spec) ==
    IF items = << >> THEN Wrote(<< >>)
    ELSE WriteThen(_write_by_ttype(spec.ktype, << Head(items)[1] >>, spec, spec.kspec),
         WriteThen(_write_by_ttype(spec.vtype, << Head(items)[2] >>, spec, spec.vspec),
                   write_items(Tail(items), spec)))

\* (variant: the declared size is one more than the number of entries)
writeContainerMap_long_count(val, spec) ==
    WriteThen(Wrote(<< << "MapBegin", spec.ktype, spec.vtype, Cardinality(val) + 1 >> >>),
    WriteThen(_write_by_ttype(spec.ktype, << >>, spec, spec.kspec),
    WriteThen(write_items(Iterate(val), spec),
              Wrote(<< << "MapEnd" >> >>))))

writeContainerMap(val, spec) ==
    WriteThen(Wrote(<< << "MapBegin", spec.ktype, spec.vtype, Cardinality(val) >> >>),
    WriteThen(_write_by_ttype(spec.ktype, << >>, spec, spec.kspec),
    WriteThen(write_items(Iterate(val), spec),
              Wrote(<< << "MapEnd" >> >>))))

\* writeFieldByTType: the first step of _write_by_ttype on [val]
writeFieldByTType(ttype, val, spec) == _write_by_ttype(ttype, << val >>, spec, spec)

\* the loop of writeStruct from entry i of thrift_spec on
RECURSIVE writeStruct_fields(_, _, _)
writeStruct_fields(obj, thrift_spec, i) ==
    IF i > Len(thrift_spec) THEN Wrote(<< >>)
    ELSE LET field == thrift_spec[i]
         IN  IF field.isNone \/ obj.attrs[i].isNone
             THEN writeStruct_fields(obj, thrift_spec, i + 1)
             ELSE WriteThen(Wrote(<< << "FieldBegin", field.fname, field.ftype, field.fid >> >>),
                  WriteThen(writeFieldByTType(field.ftype, obj.attrs[i].val, field.fspec),
                  WriteThen(Wrote(<< << "FieldEnd" >> >>),
                            writeStruct_fields(obj, thrift_spec, i + 1))))

\* (variant: no STOP is written after the fields)
writeStruct_no_stop(obj, thrift_spec) ==
    WriteThen(Wrote(<< << "StructBegin", obj.obj_class >> >>),
    WriteThen(writeStruct_fields(obj, thrift_spec, 1),
              Wrote(<< << "StructEnd" >> >>)))

writeStruct(obj, thrift_spec) ==
    WriteThen(Wrote(<< << "StructBegin", obj.obj_class >> >>),
    WriteThen(writeStruct_fields(obj, thrift_spec, 1),
              Wrote(<< << "FieldStop" >>, << "StructEnd" >> >>)))

\* the outcome of a read: the value, the read position after it (the number of
\* tokens taken), and the exception raised, if any
Got(val, pos) == [err |-> "none", val |-> val, pos |-> pos]

ReadRaised(err, pos) == [err |-> err, val |-> 0, pos |-> pos]

\* readStructBegin, readStructEnd, readFieldEnd, readListEnd, readSetEnd,
\* readMapEnd: the token at the read position is taken
readToken(toks, pos) ==
    IF pos >= Len(toks) THEN ReadRaised("EOFError", pos)
    ELSE Got(0, pos + 1)

\* a primitive reader of a value: the payload of the token at the read position
readValue(toks, pos) ==
    IF pos >= Len(toks) THEN ReadRaised("EOFError", pos)
    ELSE IF Len(toks[pos + 1]) < 2 THEN ReadRaised("INVALID_DATA", pos + 1)
    ELSE Got(toks[pos + 1][2], pos + 1)

\* readListBegin, readSetBegin, readMapBegin, readFieldBegin: the token with
\* a name in ops, INVALID_DATA for another one
readBegin(toks, pos, ops) ==
    IF pos >= Len(toks) THEN ReadRaised("EOFError", pos)
    ELSE IF toks[pos + 1][1] \notin ops THEN ReadRaised("INVALID_DATA", pos + 1)
    ELSE Got(toks[pos + 1], pos + 1)

\* readString: readBinary().decode('utf-8'); UnicodeDecodeError for bytes that
\* are not UTF-8, raised after the bytes were taken
readString(toks, pos) ==
    CHOOSE o_r \in
        {IF r.err # "none" THEN r
         ELSE IF ~utf8_valid(r.val) THEN ReadRaised("UnicodeDecodeError", r.pos)
              ELSE Got(utf8_decode(r.val), r.pos) :
             r \in {readValue(toks, pos)}} : TRUE

RECURSIVE skip(_, _, _)

\* the loop of skip(STRUCT) over the fields
RECURSIVE skip_fields(_, _)
skip_fields(toks, pos) ==
    CHOOSE o_b \in
        {IF b.err # "none" THEN b
         ELSE IF b.val[1] = "FieldStop" THEN Got(0, b.pos)
              ELSE CHOOSE o_r \in
                       {IF r.err # "none" THEN r
                        ELSE CHOOSE o_e \in
                                 {IF e.err # "none" THEN e
                                  ELSE skip_fields(toks, e.pos) :
                                      e \in {readToken(toks, r.pos)}} : TRUE :
                            r \in {skip(toks, b.pos, b.val[3])}} : TRUE :
             b \in {readBegin(toks, pos, {"FieldBegin", "FieldStop"})}} : TRUE

\* for i in range(size): self.skip(t1) and, for a map, self.skip(t2)
RECURSIVE skip_each(_, _, _, _)
skip_each(toks, pos, types, size) ==
    IF size <= 0 THEN Got(0, pos)
    ELSE CHOOSE o_k \in
             {IF k.err # "none" THEN k
              ELSE IF Len(types) = 1 THEN skip_each(toks, k.pos, types, size - 1)
                   ELSE CHOOSE o_v \in
                            {IF v.err # "none" THEN v
                             ELSE skip_each(toks, v.pos, types, size - 1) :
                                 v \in {skip(toks, k.pos, types[2])}} : TRUE :
                  k \in {skip(toks, pos, types[1])}} : TRUE

\* (variant: a value of a type without a branch is taken as one token)
skip_takes_unknown(toks, pos, ttype) ==
    IF ttype \in {TType_BOOL, TType_BYTE, TType_I16, TType_I32, TType_I64,
                  TType_DOUBLE, TType_UUID}
    THEN CHOOSE o_r \in
             {IF r.err # "none" THEN r
              ELSE Got(0, r.pos) :
                  r \in {readValue(toks, pos)}} : TRUE
    ELSE IF ttype = TType_STRING
    THEN CHOOSE o_r \in
             {IF r.err # "none" THEN r
              ELSE Got(0, r.pos) :
                  r \in {readString(toks, pos)}} : TRUE
    ELSE IF ttype = TType_STRUCT
    THEN CHOOSE o_b \in
             {IF b.err # "none" THEN b
              ELSE CHOOSE o_r \in
                       {IF r.err # "none" THEN r
                        ELSE readToken(toks, r.pos) :
                            r \in {skip_fields(toks, b.pos)}} : TRUE :
                  b \in {readToken(toks, pos)}} : TRUE
    ELSE IF ttype = TType_MAP
    THEN CHOOSE o_b \in
             {IF b.err # "none" THEN b
              ELSE CHOOSE o_r \in
                       {IF r.err # "none" THEN r
                        ELSE readToken(toks, r.pos) :
                            r \in {skip_each(toks, b.pos, << b.val[2], b.val[3] >>, b.val[4])}} : TRUE :
                  b \in {readBegin(toks, pos, {"MapBegin"})}} : TRUE
    ELSE IF ttype = TType_SET
    THEN CHOOSE o_b \in
             {IF b.err # "none" THEN b
              ELSE CHOOSE o_r \in
                       {IF r.err # "none" THEN r
                        ELSE readToken(toks, r.pos) :
                            r \in {skip_each(toks, b.pos, << b.val[2] >>, b.val[3])}} : TRUE :
                  b \in {readBegin(toks, pos, {"SetBegin"})}} : TRUE
    ELSE IF ttype = TType_LIST
    THEN CHOOSE o_b \in
             {IF b.err # "none" THEN b
              ELSE CHOOSE o_r \in
                       {IF r.err # "none" THEN r
                        ELSE readToken(toks, r.pos) :
                            r \in {skip_each(toks, b.pos, << b.val[2] >>, b.val[3])}} : TRUE :
                  b \in {readBegin(toks, pos, {"ListBegin"})}} : TRUE
    ELSE readToken(toks, pos)

\* skip(ttype) at the read position pos
skip(toks, pos, ttype) ==
    IF ttype \in {TType_BOOL, TType_BYTE, TType_I16, TType_I32, TType_I64,
                  TType_DOUBLE, TType_UUID}
    THEN CHOOSE o_r \in
             {IF r.err # "none" THEN r
              ELSE Got(0, r.pos) :
                  r \in {readValue(toks, pos)}} : TRUE
    ELSE IF ttype = TType_STRING
    THEN CHOOSE o_r \in
             {IF r.err # "none" THEN r
              ELSE Got(0, r.pos) :
                  r \in {readString(toks, pos)}} : TRUE
    ELSE IF ttype = TType_STRUCT
    THEN CHOOSE o_b \in
             {IF b.err # "none" THEN b
              ELSE CHOOSE o_r \in
                       {IF r.err # "none" THEN r
                        ELSE readToken(toks, r.pos) :
                            r \in {skip_fields(toks, b.pos)}} : TRUE :
                  b \in {readToken(toks, pos)}} : TRUE
    ELSE IF ttype = TType_MAP
    THEN CHOOSE o_b \in
             {IF b.err # "none" THEN b
              ELSE CHOOSE o_r \in
                       {IF r.err # "none" THEN r
                        ELSE readToken(toks, r.pos) :
                            r \in {skip_each(toks, b.pos, << b.val[2], b.val[3] >>, b.val[4])}} : TRUE :
                  b \in {readBegin(toks, pos, {"MapBegin"})}} : TRUE
    ELSE IF ttype = TType_SET
    THEN CHOOSE o_b \in
             {IF b.err # "none" THEN b
              ELSE CHOOSE o_r \in
                       {IF r.err # "none" THEN r
                        ELSE readToken(toks, r.pos) :
                            r \in {skip_each(toks, b.pos, << b.val[2] >>, b.val[3])}} : TRUE :
                  b \in {readBegin(toks, pos, {"SetBegin"})}} : TRUE
    ELSE IF ttype = TType_LIST
    THEN CHOOSE o_b \in
             {IF b.err # "none" THEN b
              ELSE CHOOSE o_r \in
                       {IF r.err # "none" THEN r
                        ELSE readToken(toks, r.pos) :
                            r \in {skip_each(toks, b.pos, << b.val[2] >>, b.val[3])}} : TRUE :
                  b \in {readBegin(toks, pos, {"ListBegin"})}} : TRUE
    ELSE ReadRaised("INVALID_DATA", pos)

RECURSIVE readStruct(_, _, _, _)
RECURSIVE readContainerList(_, _, _)
RECURSIVE readContainerSet(_, _, _)
RECURSIVE readContainerMap(_, _, _)

\* readContainerStruct: obj = obj_class(), then obj.read(self), which reads obj
\* by the thrift_spec of its class
readContainerStruct(toks, pos, spec) ==
    readStruct(toks, pos, NewObject(spec.obj_class, spec.obj_spec), spec.obj_spec)

\* the call of the reader method named reader_name
call_reader(reader_name, toks, pos, espec) ==
    CASE reader_name \in {"readBool", "readByte", "readDouble", "readI16", "readI32",
                          "readI64", "readBinary", "readUuid"} -> readValue(toks, pos)
      [] reader_name = "readString" -> readString(toks, pos)
      [] reader_name = "readContainerStruct" -> readContainerStruct(toks, pos, espec)
      [] reader_name = "readContainerMap" -> readContainerMap(toks, pos, espec)
      [] reader_name = "readContainerSet" -> readContainerSet(toks, pos, espec)
      [] reader_name = "readContainerList" -> readContainerList(toks, pos, espec)

\* the first n values of the generator _read_by_ttype: INVALID_DATA for a type
\* without a reader, found when the first value is asked for
RECURSIVE _read_by_ttype(_, _, _, _, _)
_read_by_ttype(toks, pos, ttype, espec, n) ==
    IF n <= 0 THEN Got(<< >>, pos)
    ELSE IF _ttype_handlers(ttype, espec).reader \in {"None", "raise"}
    THEN ReadRaised("INVALID_DATA", pos)
    ELSE CHOOSE o_r \in
             {IF r.err # "none" THEN r
              ELSE CHOOSE o_rest \in
                       {IF rest.err # "none" THEN rest
                        ELSE Got(<< r.val >> \o rest.val, rest.pos) :
                            rest \in {_read_by_ttype(toks, r.pos, ttype, espec, n - 1)}} : TRUE :
                  r \in {call_reader(_ttype_handlers(ttype, espec).reader, toks, pos, espec)}} : TRUE

\* readFieldByTType: the first value of _read_by_ttype
readFieldByTType(toks, pos, ttype, spec) ==
    CHOOSE o_r \in
        {IF r.err # "none" THEN r
         ELSE Got(r.val[1], r.pos) :
             r \in {_read_by_ttype(toks, pos, ttype, spec, 1)}} : TRUE

\* islice(..., n) raises ValueError for a negative n
islice_ok(n) == n >= 0

\* (variant: one element more than the declared count is read)
readContainerList_one_more(toks, pos, spec) ==
    CHOOSE o_b \in
        {IF b.err # "none" THEN b
         ELSE IF ~islice_ok(b.val[3]) THEN ReadRaised("ValueError", b.pos)
              ELSE CHOOSE o_r \in
                       {IF r.err # "none" THEN r
                        ELSE CHOOSE o_e \in
                                 {IF e.err # "none" THEN e
                                  ELSE Got(ListValue(spec.is_immutable, r.val), e.pos) :
                                      e \in {readToken(toks, r.pos)}} : TRUE :
                            r \in {_read_by_ttype(toks, b.pos, spec.ttype, spec.tspec, b.val[3] + 1)}} : TRUE :
             b \in {readBegin(toks, pos, {"ListBegin"})}} : TRUE

readContainerList(toks, pos, spec) ==
    CHOOSE o_b \in
        {IF b.err # "none" THEN b
         ELSE IF ~islice_ok(b.val[3]) THEN ReadRaised("ValueError", b.pos)
              ELSE CHOOSE o_r \in
                       {IF r.err # "none" THEN r
                        ELSE CHOOSE o_e \in
                                 {IF e.err # "none" THEN e
                                  ELSE Got(ListValue(spec.is_immutable, r.val), e.pos) :
                                      e \in {readToken(toks, r.pos)}} : TRUE :
                            r \in {_read_by_ttype(toks, b.pos, spec.ttype, spec.tspec, b.val[3])}} : TRUE :
             b \in {readBegin(toks, pos, {"ListBegin"})}} : TRUE

readContainerSet(toks, pos, spec) ==
    CHOOSE o_b \in
        {IF b.err # "none" THEN b
         ELSE IF ~islice_ok(b.val[3]) THEN ReadRaised("ValueError", b.pos)
              ELSE CHOOSE o_r \in
                       {IF r.err # "none" THEN r
                        ELSE CHOOSE o_e \in
                                 {IF e.err # "none" THEN e
                                  ELSE Got({r.val[i] : i \in 1..Len(r.val)}, e.pos) :
                                      e \in {readToken(toks, r.pos)}} : TRUE :
                            r \in {_read_by_ttype(toks, b.pos, spec.ttype, spec.tspec, b.val[3])}} : TRUE :
             b \in {readBegin(toks, pos, {"SetBegin"})}} : TRUE

\* dict(...) of the items read so far with one more item: a key met again
\* takes the new value
dict_set(items, key, val) ==
    {it \in items : it[1] # key} \cup {<< key, val >>}

\* the first n items of zip(keys, vals): a key, then a value, n times
RECURSIVE read_items(_, _, _, _, _)
read_items(toks, pos, spec, n, items) ==
    IF n <= 0 THEN Got(items, pos)
    ELSE CHOOSE o_k \in
             {IF k.err # "none" THEN k
              ELSE CHOOSE o_v \in
                       {IF v.err # "none" THEN v
                        ELSE CHOOSE o_d \in
                                 {read_items(toks, v.pos, spec, n - 1, d) :
                                      d \in {dict_set(items, k.val[1], v.val[1])}} : TRUE :
                            v \in {_read_by_ttype(toks, k.pos, spec.vtype, spec.vspec, 1)}} : TRUE :
                  k \in {_read_by_ttype(toks, pos, spec.ktype, spec.kspec, 1)}} : TRUE

readContainerMap(toks, pos, spec) ==
    CHOOSE o_b \in
        {IF b.err # "none" THEN b
         ELSE IF ~islice_ok(b.val[4]) THEN ReadRaised("ValueError", b.pos)
              ELSE CHOOSE o_r \in
                       {IF r.err # "none" THEN r
                        ELSE CHOOSE o_e \in
                                 {IF e.err # "none" THEN e
                                  ELSE Got(r.val, e.pos) :
                                      e \in {readToken(toks, r.pos)}} : TRUE :
                            r \in {read_items(toks, b.pos, spec, b.val[4], {})}} : TRUE :
             b \in {readBegin(toks, pos, {"MapBegin"})}} : TRUE

\* thrift_spec[fid]: the entry at the Python index fid, 0 for an IndexError
spec_index(thrift_spec, fid) ==
    IF fid >= Len(thrift_spec) \/ fid < -Len(thrift_spec) THEN 0
    ELSE IF fid >= 0 THEN fid + 1
    ELSE Len(thrift_spec) + fid + 1

\* readStruct, the test of a field header: the id is in the table, the entry
\* is not None and its type is the type on the wire
field_known(thrift_spec, ftype, fid) ==
    LET i == spec_index(thrift_spec, fid)
    IN  /\ i # 0
        /\ ~thrift_spec[i].isNone
        /\ ftype = thrift_spec[i].ftype

\* the loop of readStruct over the fields: a known field is read and set, any
\* other is skipped
RECURSIVE readStruct_fields(_, _, _, _)
readStruct_fields(toks, pos, obj, thrift_spec) ==
    CHOOSE o_b \in
        {IF b.err # "none" THEN b
         ELSE IF b.val[1] = "FieldStop" THEN Got(obj, b.pos)
              ELSE IF field_known(thrift_spec, b.val[3], b.val[4])
              THEN CHOOSE o_r \in
                       {IF r.err # "none" THEN r
                        ELSE CHOOSE o_e \in
                                 {IF e.err # "none" THEN e
                                  ELSE CHOOSE o_o \in
                                           {readStruct_fields(toks, e.pos, o, thrift_spec) :
                                                o \in {[obj EXCEPT !.attrs[spec_index(thrift_spec, b.val[4])] = Attr(r.val)]}} : TRUE :
                                      e \in {readToken(toks, r.pos)}} : TRUE :
                            r \in {readFieldByTType(toks, b.pos, b.val[3],
                                                    thrift_spec[spec_index(thrift_spec, b.val[4])].fspec)}} : TRUE
              ELSE CHOOSE o_s \in
                       {IF s.err # "none" THEN s
                        ELSE CHOOSE o_f \in
                                 {IF f.err # "none" THEN f
                                  ELSE readStruct_fields(toks, f.pos, obj, thrift_spec) :
                                      f \in {readToken(toks, s.pos)}} : TRUE :
                            s \in {skip(toks, b.pos, b.val[3])}} : TRUE :
             b \in {readBegin(toks, pos, {"FieldBegin", "FieldStop"})}} : TRUE

\* readStruct(obj, thrift_spec): the object with the fields read set
readStruct(toks, pos, obj, thrift_spec) ==
    CHOOSE o_b \in
        {IF b.err # "none" THEN b
         ELSE CHOOSE o_r \in
                  {IF r.err # "none" THEN r
                   ELSE CHOOSE o_e \in
                            {IF e.err # "none" THEN e
                             ELSE Got(r.val, e.pos) :
                                 e \in {readToken(toks, r.pos)}} : TRUE :
                       r \in {readStruct_fields(toks, b.pos, obj, thrift_spec)}} : TRUE :
             b \in {readToken(toks, pos)}} : TRUE

MaxValues == 2

\* the thrift_spec of a class with two fields; entry 0 is None
InnerSpec ==
    << NoField,
       Field(1, TType_I32, "a", NoneSpec),
       Field(2, TType_STRING, "s", NoneSpec) >>

\* list<Inner>, mutable
InnerListSpec == ElemSpec(TType_STRUCT, StructSpec("Inner", InnerSpec), FALSE)

\* map<i32, list<Inner>>, mutable
NestedMapSpec == MapSpec(TType_I32, NoneSpec, TType_LIST, InnerListSpec, FALSE)

\* the thrift_spec of a class with a gap at field id 2
OuterSpec ==
    << NoField,
       Field(1, TType_BOOL, "flag", NoneSpec),
       NoField,
       Field(3, TType_LIST, "items", ElemSpec(TType_BYTE, NoneSpec, TRUE)),
       Field(4, TType_STRUCT, "inner", StructSpec("Inner", InnerSpec)),
       Field(5, TType_MAP, "table", NestedMapSpec) >>

Inner(a, s) == Object("Inner", << Unset, a, s >>)

Outer(flag, items, inner, table) ==
    Object("Outer", << Unset, flag, Unset, items, inner, table >>)

FieldInput(ttype, spec, val) ==
    [kind |-> "field", ttype |-> ttype, spec |-> spec, val |-> val]

StructInput(thrift_spec, obj) ==
    [kind |-> "struct", ttype |-> TType_STRUCT, spec |-> thrift_spec, val |-> obj]

\* the values written: every type with a writer, boundary integers, empty and
\* non-empty containers, a struct in a list in a map
CodecInputs ==
    << FieldInput(TType_BOOL, NoneSpec, TRUE),
       FieldInput(TType_BOOL, NoneSpec, FALSE),
       FieldInput(TType_BYTE, NoneSpec, -128),
       FieldInput(TType_BYTE, NoneSpec, 127),
       FieldInput(TType_DOUBLE, NoneSpec, -3),
       FieldInput(TType_I16, NoneSpec, -32768),
       FieldInput(TType_I16, NoneSpec, 32767),
       FieldInput(TType_I32, NoneSpec, -2147483647),
       FieldInput(TType_I32, NoneSpec, 2147483647),
       FieldInput(TType_I64, NoneSpec, 0),
       FieldInput(TType_STRING, NoneSpec, << >>),
       FieldInput(TType_STRING, NoneSpec, << 104, 233 >>),
       FieldInput(TType_STRING, BinarySpec, << 0, 255 >>),
       FieldInput(TType_UUID, NoneSpec, 77),
       FieldInput(TType_LIST, ElemSpec(TType_I32, NoneSpec, FALSE), ListValue(FALSE, << >>)),
       FieldInput(TType_LIST, ElemSpec(TType_I32, NoneSpec, FALSE),
                  ListValue(FALSE, << 1, 2, 1 >>)),
       FieldInput(TType_LIST, ElemSpec(TType_STRING, BinarySpec, TRUE),
                  ListValue(TRUE, << << 9 >> >>)),
       FieldInput(TType_SET, ElemSpec(TType_I16, NoneSpec, FALSE), {}),
       FieldInput(TType_SET, ElemSpec(TType_I16, NoneSpec, TRUE), {1, 2}),
       FieldInput(TType_MAP, MapSpec(TType_I32, NoneSpec, TType_STRING, NoneSpec, FALSE), {}),
       FieldInput(TType_MAP, MapSpec(TType_I32, NoneSpec, TType_STRING, NoneSpec, FALSE),
                  {<< 1, << 97 >> >>, << 2, << >> >>}),
       FieldInput(TType_MAP, NestedMapSpec,
                  {<< 1, ListValue(FALSE, << Inner(Attr(5), Unset) >>) >>,
                   << 2, ListValue(FALSE, << >>) >>}),
       FieldInput(TType_STRUCT, StructSpec("Inner", InnerSpec),
                  Inner(Attr(-1), Attr(<< 120 >>))),
       FieldInput(TType_STRUCT, StructSpec("Inner", InnerSpec), Inner(Unset, Unset)),
       StructInput(InnerSpec, Inner(Unset, Attr(<< 233 >>))),
       StructInput(OuterSpec, Outer(Unset, Unset, Unset, Unset)),
       StructInput(OuterSpec, Outer(Attr(TRUE), Attr(ListValue(TRUE, << -128, 127 >>)),
                                    Unset, Unset)),
       StructInput(OuterSpec,
                   Outer(Attr(FALSE), Attr(ListValue(TRUE, << >>)),
                         Attr(Inner(Attr(7), Unset)),
                         Attr({<< 3, ListValue(FALSE, << Inner(Unset, Attr(<< 98 >>)),
                                                         Inner(Attr(0), Unset) >>) >>}))) >>

\* the write of one value: its tokens go to the transport
CodecWrite(in, w) ==
    /\ Len(writes) < MaxValues
    /\ trans' = trans \o w.toks
    /\ writes' = Append(writes, [kind |-> in.kind, ttype |-> in.ttype, spec |-> in.spec,
                                 val |-> in.val, err |-> w.err,
                                 end |-> Len(trans) + Len(w.toks)])
    /\ UNCHANGED << rpos, reads >>
    /\ UNCHANGED << readVars, stream, writeVars, saslVars, serverVars, sideVars >>

\* writeFieldByTType(ttype, val, spec)
WriteFieldByTType(in) ==
    /\ in.kind = "field"
    /\ \E w \in {writeFieldByTType(in.ttype, in.val, in.spec)} : CodecWrite(in, w)

\* writeStruct(obj, thrift_spec)
WriteStruct(in) ==
    /\ in.kind = "struct"
    /\ \E w \in {writeStruct(in.val, in.spec)} : CodecWrite(in, w)

\* the read of the next value that was written and not read yet
CodecRead(r) ==
    /\ rpos' = r.pos
    /\ reads' = Append(reads, r)
    /\ UNCHANGED << trans, writes >>
    /\ UNCHANGED << readVars, stream, writeVars, saslVars, serverVars, sideVars >>

\* readFieldByTType(ttype, spec) with the type and the spec of the write
ReadFieldByTType ==
    /\ Len(reads) < Len(writes)
    /\ writes[Len(reads) + 1].kind = "field"
    /\ \E in \in {writes[Len(reads) + 1]} :
           \E r \in {readFieldByTType(trans, rpos, in.ttype, in.spec)} : CodecRead(r)

\* readStruct(obj, thrift_spec) into a new object of the class written
ReadStruct ==
    /\ Len(reads) < Len(writes)
    /\ writes[Len(reads) + 1].kind = "struct"
    /\ \E in \in {writes[Len(reads) + 1]} :
           \E r \in {readStruct(trans, rpos, NewObject(in.val.obj_class, in.spec),
                                 in.spec)} : CodecRead(r)

CodecSideInit == Init /\ stream = "none" /\ frames = << >> /\ wellFormed

CodecNext ==
    \/ \E i \in 1..Len(CodecInputs) : WriteFieldByTType(CodecInputs[i])
    \/ \E i \in 1..Len(CodecInputs) : WriteStruct(CodecInputs[i])
    \/ ReadFieldByTType
    \/ ReadStruct

CodecSpec == CodecSideInit /\ [][CodecNext]_vars

\* C20: what readFieldByTType / readStruct read is the value that
\* writeFieldByTType / writeStruct wrote under the same spec, and the read ends
\* exactly where the written value ends.
C20_CodecRoundTrip ==
    \A k \in 1..Len(reads) :
        /\ writes[k].err = "none"
        /\ reads[k].err = "none"
        /\ reads[k].pos = writes[k].end
        /\ reads[k].val = writes[k].val

C20_Witness ==
    /\ Len(reads) = 2
    /\ writes[1].kind = "struct"
    /\ writes[1].val.obj_class = "Outer"
    /\ ~writes[1].val.attrs[6].isNone
    /\ writes[2].ttype = TType_MAP
    /\ rpos = Len(trans)

\* ---------------------------------------------------------------------------
\* the layout of a written struct
\* ---------------------------------------------------------------------------

\* the tokens of the k-th value written
ItemStart(k) == IF k = 1 THEN 0 ELSE writes[k - 1].end

ItemTokens(k) == SubSeq(trans, ItemStart(k) + 1, writes[k].end)

\* the number of tokens named op in toks
CountTokens(toks, op) == Cardinality({i \in 1..Len(toks) : toks[i][1] = op})

\* header, value and end marker of the fields of obj that are declared in
\* the entries i.. of thrift_spec and are not None, in the order of the entries
RECURSIVE ExpectedFields(_, _, _)
ExpectedFields(obj, thrift_spec, i) ==
    IF i > Len(thrift_spec) THEN << >>
    ELSE (IF thrift_spec[i].isNone \/ obj.attrs[i].isNone THEN << >>
          ELSE << << "FieldBegin", thrift_spec[i].fname, thrift_spec[i].ftype,
                     thrift_spec[i].fid >> >>
               \o writeFieldByTType(thrift_spec[i].ftype, obj.attrs[i].val,
                                    thrift_spec[i].fspec).toks
               \o << << "FieldEnd" >> >>)
         \o ExpectedFields(obj, thrift_spec, i + 1)

\* C21: writeStruct writes, between the struct markers, header, value and
\* field end of every field that is declared and not None, in the order of
\* thrift_spec, nothing for the other entries, and then one STOP; every
\* struct written, nested ones included, has exactly one STOP.
C21_WriteStructLayout ==
    \A k \in 1..Len(writes) :
        writes[k].kind = "struct" =>
            /\ ItemTokens(k) =
                   << << "StructBegin", writes[k].val.obj_class >> >>
                   \o ExpectedFields(writes[k].val, writes[k].spec, 1)
                   \o << << "FieldStop" >>, << "StructEnd" >> >>
            /\ CountTokens(ItemTokens(k), "FieldStop")
                   = CountTokens(ItemTokens(k), "StructBegin")

C21_Witness ==
    \E k \in 1..Len(writes) :
        /\ writes[k].kind = "struct"
        /\ writes[k].val.obj_class = "Outer"
        /\ ~writes[k].val.attrs[2].isNone
        /\ writes[k].val.attrs[5].isNone
        /\ CountTokens(ItemTokens(k), "FieldBegin") = 2

\* ---------------------------------------------------------------------------
\* decoding what a peer sent: a struct written under another thrift_spec, and
\* token sequences that no writer of this class produces
\* ---------------------------------------------------------------------------

\* a struct that a peer wrote under its thrift_spec wspec, read into an object
\* of the class rclass under the thrift_spec rspec
PeerStruct(wspec, obj, rclass, rspec) ==
    [kind |-> "peer", ttype |-> TType_STRUCT, wspec |-> wspec, val |-> obj,
     obj_class |-> rclass, spec |-> rspec]

\* tokens of a peer that skip(ttype) is called on; before is the number of
\* tokens in front of the value with the type that skip has no branch for
RawSkip(toks, ttype, before) ==
    [kind |-> "rawskip", ttype |-> ttype, toks |-> toks, before |-> before]

\* tokens of a peer that hold a container with count elements and more data
\* behind it, read by readFieldByTType(ttype, spec)
RawRead(toks, ttype, spec, count) ==
    [kind |-> "rawread", ttype |-> ttype, spec |-> spec, toks |-> toks, count |-> count]

\* the peer's version of Inner has a field 3, and a field 9 with a list of structs
WiderSpec ==
    << NoField,
       Field(1, TType_I32, "a", NoneSpec),
       Field(2, TType_STRING, "s", NoneSpec),
       Field(3, TType_I32, "extra", NoneSpec),
       Field(9, TType_LIST, "more", InnerListSpec) >>

\* the peer's version of Outer has a field 2, where the reader has None
FilledSpec ==
    << NoField,
       Field(1, TType_BOOL, "flag", NoneSpec),
       Field(2, TType_MAP, "gone",
             MapSpec(TType_I32, NoneSpec, TType_STRING, NoneSpec, FALSE)),
       Field(3, TType_LIST, "items", ElemSpec(TType_BYTE, NoneSpec, TRUE)) >>

\* the peer's struct has fields with negative ids
NegativeSpec ==
    << Field(-1, TType_STRING, "neg", NoneSpec),
       Field(-9, TType_I32, "far", NoneSpec),
       Field(1, TType_I32, "a", NoneSpec) >>

\* the peer declares field 1 as a string, a map or a struct, and field 2 as
\* the reader does
RetypedSpec(ftype, fspec) ==
    << NoField,
       Field(1, ftype, "a", fspec),
       Field(2, TType_STRING, "s", NoneSpec) >>

\* the structs of peers, and the spec they are read under
PeerInputs ==
    << PeerStruct(WiderSpec,
                  Object("Inner", << Unset, Attr(4), Attr(<< 97 >>), Attr(-5), Unset >>),
                  "Inner", InnerSpec),
       PeerStruct(WiderSpec,
                  Object("Inner", << Unset, Unset, Attr(<< >>), Unset,
                                     Attr(ListValue(FALSE, << Inner(Attr(1), Attr(<< 98 >>)),
                                                              Inner(Unset, Unset) >>)) >>),
                  "Inner", InnerSpec),
       PeerStruct(FilledSpec,
                  Object("Outer", << Unset, Attr(TRUE), Attr({<< 1, << 99 >> >>}),
                                     Attr(ListValue(TRUE, << 5 >>)) >>),
                  "Outer", OuterSpec),
       PeerStruct(NegativeSpec,
                  Object("Inner", << Attr(<< 110 >>), Attr(6), Attr(8) >>),
                  "Inner", InnerSpec),
       PeerStruct(NegativeSpec,
                  Object("Inner", << Unset, Attr(6), Attr(8) >>),
                  "Inner", InnerSpec),
       PeerStruct(RetypedSpec(TType_STRING, NoneSpec),
                  Object("Inner", << Unset, Attr(<< 49 >>), Attr(<< 115 >>) >>),
                  "Inner", InnerSpec),
       PeerStruct(RetypedSpec(TType_STRING, BinarySpec),
                  Object("Inner", << Unset, Attr(<< 255 >>), Attr(<< 115 >>) >>),
                  "Inner", InnerSpec),
       PeerStruct(RetypedSpec(TType_MAP, NestedMapSpec),
                  Object("Inner", << Unset,
                                     Attr({<< 1, ListValue(FALSE, << Inner(Attr(5), Unset) >>) >>}),
                                     Attr(<< 116 >>) >>),
                  "Inner", InnerSpec),
       PeerStruct(RetypedSpec(TType_STRUCT, StructSpec("Inner", InnerSpec)),
                  Object("Inner", << Unset, Attr(Inner(Attr(3), Attr(<< 120 >>))), Unset >>),
                  "Inner", InnerSpec) >>

\* the types that skip has no branch for
InvalidTypes == {TType_STOP, TType_VOID, 5, 7, 9, TType_UTF16, 18, -1}

\* skip(ttype) is called in front of a token
InvalidValue(ttype) == RawSkip(<< << "I32", 1 >> >>, ttype, 0)

\* values for skip: binary strings that are not UTF-8, alone and in a list
SkipInputs ==
    << FieldInput(TType_STRING, BinarySpec, << 255 >>),
       FieldInput(TType_LIST, ElemSpec(TType_STRING, BinarySpec, FALSE),
                  ListValue(FALSE, << << 128 >>, << 97 >> >>)) >>

\* token sequences for skip: a value of a type without a branch
\* as the element of a list or a set, as key or value of a map, as a field of
\* a struct, and two levels down; well-formed nested values without a writer
\* spec
RawSkipInputs ==
    << RawSkip(<< << "ListBegin", TType_VOID, 1 >>, << "I32", 1 >>, << "ListEnd" >> >>,
               TType_LIST, 1),
       RawSkip(<< << "SetBegin", TType_UTF16, 2 >>, << "I32", 1 >>, << "I32", 2 >>,
                  << "SetEnd" >> >>, TType_SET, 1),
       RawSkip(<< << "MapBegin", 5, TType_I32, 1 >>, << "I32", 1 >>, << "I32", 2 >>,
                  << "MapEnd" >> >>, TType_MAP, 1),
       RawSkip(<< << "MapBegin", TType_I32, TType_STOP, 1 >>, << "I32", 1 >>, << "I32", 2 >>,
                  << "MapEnd" >> >>, TType_MAP, 2),
       RawSkip(<< << "StructBegin", "S" >>, << "FieldBegin", "f", TType_BYTE, 1 >>,
                  << "Byte", 3 >>, << "FieldEnd" >>, << "FieldBegin", "g", 7, 2 >>,
                  << "I32", 1 >>, << "FieldEnd" >>, << "FieldStop" >>, << "StructEnd" >> >>,
               TType_STRUCT, 5),
       RawSkip(<< << "ListBegin", TType_MAP, 1 >>, << "MapBegin", TType_I16, 18, 1 >>,
                  << "I16", 1 >>, << "I32", 2 >>, << "MapEnd" >>, << "ListEnd" >> >>,
               TType_LIST, 3) >>

\* containers whose declared count is less than the elements that follow
RawReadInputs ==
    << RawRead(<< << "ListBegin", TType_I32, 2 >>, << "I32", 1 >>, << "I32", 2 >>,
                  << "ListEnd" >>, << "I32", 3 >>, << "I32", 4 >> >>,
               TType_LIST, ElemSpec(TType_I32, NoneSpec, FALSE), 2),
       RawRead(<< << "ListBegin", TType_I32, 0 >>, << "ListEnd" >>, << "I32", 3 >> >>,
               TType_LIST, ElemSpec(TType_I32, NoneSpec, TRUE), 0),
       RawRead(<< << "SetBegin", TType_BYTE, 2 >>, << "Byte", 7 >>, << "Byte", 7 >>,
                  << "SetEnd" >>, << "Byte", 8 >> >>,
               TType_SET, ElemSpec(TType_BYTE, NoneSpec, FALSE), 2),
       RawRead(<< << "MapBegin", TType_I32, TType_BYTE, 2 >>, << "I32", 1 >>,
                  << "Byte", 97 >>, << "I32", 2 >>, << "Byte", 98 >>,
                  << "MapEnd" >>, << "I32", 3 >>, << "Byte", 99 >> >>,
               TType_MAP, MapSpec(TType_I32, NoneSpec, TType_BYTE, NoneSpec, FALSE), 2),
       RawRead(<< << "MapBegin", TType_I32, TType_I32, 1 >>, << "I32", 1 >>, << "I32", 2 >>,
                  << "MapEnd" >>, << "I32", 3 >>, << "I32", 4 >> >>,
               TType_MAP, MapSpec(TType_I32, NoneSpec, TType_I32, NoneSpec, TRUE), 1) >>

\* the bytes of a peer arrive: their tokens are in the transport
PeerWrite(in, toks) ==
    /\ Len(writes) < MaxValues
    /\ trans' = trans \o toks
    /\ writes' = Append(writes, [kind |-> in.kind, ttype |-> in.ttype, in |-> in,
                                 end |-> Len(trans) + Len(toks)])
    /\ UNCHANGED << rpos, reads >>
    /\ UNCHANGED << readVars, stream, writeVars, saslVars, serverVars, sideVars >>

\* a peer wrote a struct under its own thrift_spec
PeerWriteStruct(in) ==
    \E w \in {writeStruct(in.val, in.wspec)} : w.err = "none" /\ PeerWrite(in, w.toks)

\* a peer sent tokens
PeerSend(in) == PeerWrite(in, in.toks)

\* a read of the next value sent; the value after it is read from its start
DecodeRead(r) ==
    /\ rpos' = writes[Len(reads) + 1].end
    /\ reads' = Append(reads, r)
    /\ UNCHANGED << trans, writes >>
    /\ UNCHANGED << readVars, stream, writeVars, saslVars, serverVars, sideVars >>

\* skip(ttype) at the start of a value
Skip ==
    /\ Len(reads) < Len(writes)
    /\ writes[Len(reads) + 1].kind \in {"field", "struct", "rawskip"}
    /\ \E r \in {skip(trans, rpos, writes[Len(reads) + 1].ttype)} : DecodeRead(r)

\* readStruct(obj, thrift_spec) of the reader on the struct of a peer
ReadPeerStruct ==
    /\ Len(reads) < Len(writes)
    /\ writes[Len(reads) + 1].kind = "peer"
    /\ \E in \in {writes[Len(reads) + 1].in} :
           \E r \in {readStruct(trans, rpos, NewObject(in.obj_class, in.spec), in.spec)} :
               DecodeRead(r)

\* readFieldByTType(ttype, spec) on a container of a peer
ReadContainer ==
    /\ Len(reads) < Len(writes)
    /\ writes[Len(reads) + 1].kind = "rawread"
    /\ \E in \in {writes[Len(reads) + 1].in} :
           \E r \in {readFieldByTType(trans, rpos, in.ttype, in.spec)} : DecodeRead(r)

\* values are written and skipped
SkipNext ==
    \/ \E i \in 1..Len(CodecInputs) : WriteFieldByTType(CodecInputs[i])
    \/ \E i \in 1..Len(SkipInputs) : WriteFieldByTType(SkipInputs[i])
    \/ \E i \in 1..Len(CodecInputs) : WriteStruct(CodecInputs[i])
    \/ Skip

SkipSpec == CodecSideInit /\ [][SkipNext]_vars

\* skip meets a type without a branch in what a peer sent
InvalidSkipNext ==
    \/ \E i \in 1..Len(RawSkipInputs) : PeerSend(RawSkipInputs[i])
    \/ \E ttype \in InvalidTypes : PeerSend(InvalidValue(ttype))
    \/ Skip

InvalidSkipSpec == CodecSideInit /\ [][InvalidSkipNext]_vars

\* structs and containers of a peer are read
DecodeNext ==
    \/ \E i \in 1..Len(PeerInputs) : PeerWriteStruct(PeerInputs[i])
    \/ \E i \in 1..Len(RawReadInputs) : PeerSend(RawReadInputs[i])
    \/ ReadPeerStruct
    \/ ReadContainer

DecodeSpec == CodecSideInit /\ [][DecodeNext]_vars

\* the fields of the struct of a peer that are not None and have the id fid
SentWithId(in, fid) ==
    {j \in 1..Len(in.wspec) :
        ~in.wspec[j].isNone /\ ~in.val.attrs[j].isNone /\ in.wspec[j].fid = fid}

\* the ids that the thrift_spec of the reader declares
DeclaredIds(thrift_spec) ==
    {thrift_spec[i].fid : i \in {j \in 1..Len(thrift_spec) : ~thrift_spec[j].isNone}}

\* a field was sent whose id the reader does not declare
HasUnknownField(in) ==
    \E j \in 1..Len(in.wspec) :
        /\ SentWithId(in, in.wspec[j].fid) # {}
        /\ in.wspec[j].fid \notin DeclaredIds(in.spec)

\* the field that entry i of the reader's thrift_spec declares was sent with
\* another type
IsMismatched(in, i) ==
    /\ ~in.spec[i].isNone
    /\ \E j \in SentWithId(in, in.spec[i].fid) : in.wspec[j].ftype # in.spec[i].ftype

\* what attribute i of the object read holds when every field is decoded by
\* its id and type: the value sent with the id and the type that entry i
\* declares, None if there is none
ExpectedAttr(in, i) ==
    LET sent == IF in.spec[i].isNone THEN {}
                ELSE {j \in SentWithId(in, in.spec[i].fid) :
                         in.wspec[j].ftype = in.spec[i].ftype}
    IN  IF sent = {} THEN Unset
        ELSE in.val.attrs[CHOOSE j \in sent : TRUE]

SameAttr(a, b) ==
    /\ a.isNone = b.isNone
    /\ ~a.isNone => a.val = b.val

\* the read of the k-th value, a struct of a peer, went to the end of the
\* struct and set every attribute as ExpectedAttr says
DecodedAsExpected(k) ==
    /\ reads[k].err = "none"
    /\ reads[k].pos = writes[k].end
    /\ \A i \in 1..Len(writes[k].in.spec) :
           SameAttr(reads[k].val.attrs[i], ExpectedAttr(writes[k].in, i))

\* C22: readStruct skips a field whose id its thrift_spec does not declare
\* (past the end of the table, at a None entry, negative), stores it in no
\* attribute, and decodes the declared fields of the same struct.
C22_UnknownFieldSkipped ==
    \A k \in 1..Len(reads) :
        (writes[k].kind = "peer" /\ HasUnknownField(writes[k].in)) => DecodedAsExpected(k)

\* the same for ids that are not negative (holds)
UnknownPositiveFieldSkipped ==
    \A k \in 1..Len(reads) :
        (/\ writes[k].kind = "peer"
         /\ HasUnknownField(writes[k].in)
         /\ \A j \in 1..Len(writes[k].in.wspec) : writes[k].in.wspec[j].fid >= 0)
            => DecodedAsExpected(k)

\* C23: readStruct skips a declared field that arrives with another type by
\* the type on the wire, leaves its attribute None, does not fail, and
\* decodes the fields after it.
C23_MismatchedFieldSkipped ==
    \A k \in 1..Len(reads) :
        (/\ writes[k].kind = "peer"
         /\ \E i \in 1..Len(writes[k].in.spec) : IsMismatched(writes[k].in, i))
            => /\ DecodedAsExpected(k)
               /\ \A i \in 1..Len(writes[k].in.spec) :
                      IsMismatched(writes[k].in, i) => reads[k].val.attrs[i].isNone

\* the same for fields that are not strings on the wire (holds)
MismatchedNonStringSkipped ==
    \A k \in 1..Len(reads) :
        (/\ writes[k].kind = "peer"
         /\ \E i \in 1..Len(writes[k].in.spec) : IsMismatched(writes[k].in, i)
         /\ \A j \in 1..Len(writes[k].in.wspec) :
                writes[k].in.wspec[j].fspec.kind # "BINARY")
            => DecodedAsExpected(k)

\* C24: skip(t) at the start of a written value of type t ends without an
\* exception at the first token after the value.
C24_SkipConsumesValue ==
    \A k \in 1..Len(reads) :
        writes[k].kind \in {"field", "struct"} =>
            /\ reads[k].err = "none"
            /\ reads[k].pos = writes[k].end

\* the same for values without a binary string (holds)
SkipConsumesTextValue ==
    \A k \in 1..Len(reads) :
        (/\ writes[k].kind \in {"field", "struct"}
         /\ \A i \in ItemStart(k) + 1..writes[k].end :
                trans[i][1] = "Binary" => utf8_valid(trans[i][2]))
            => /\ reads[k].err = "none"
               /\ reads[k].pos = writes[k].end

\* C25: skip(t) for a type t without a branch, called at the top or met below
\* a container or a struct, raises INVALID_DATA and takes no token after the
\* ones in front of the value of type t.
C25_SkipInvalidType ==
    \A k \in 1..Len(reads) :
        writes[k].kind = "rawskip" =>
            /\ reads[k].err = "INVALID_DATA"
            /\ reads[k].pos = ItemStart(k) + writes[k].in.before

C25_Witness ==
    /\ Len(reads) = 2
    /\ writes[1].kind = "rawskip" /\ writes[1].in.before = 0
    /\ writes[1].in.ttype = TType_STOP
    /\ writes[2].kind = "rawskip" /\ writes[2].in.before = 3
    /\ reads[2].pos < writes[2].end

\* C26: readContainerList and readContainerSet read as many elements as the
\* begin marker declares, readContainerMap as many keys and values, key
\* before value, and then the end marker; nothing behind it is read.
C26_ContainerReadsDeclaredCount ==
    \A k \in 1..Len(reads) :
        writes[k].kind = "rawread" =>
            LET in == writes[k].in
                n == in.count
            IN  /\ reads[k].err = "none"
                /\ reads[k].pos = ItemStart(k) + 2
                                  + (IF in.ttype = TType_MAP THEN 2 * n ELSE n)
                /\ reads[k].pos < writes[k].end
                /\ in.ttype = TType_LIST =>
                       reads[k].val.elems = [i \in 1..n |-> in.toks[1 + i][2]]
                /\ in.ttype = TType_SET =>
                       reads[k].val = {in.toks[1 + i][2] : i \in 1..n}
                /\ in.ttype = TType_MAP =>
                       reads[k].val = {<< in.toks[2 * i][2], in.toks[2 * i + 1][2] >> :
                                          i \in 1..n}

C26_Witness ==
    /\ Len(reads) = 2
    /\ writes[1].kind = "rawread" /\ writes[1].ttype = TType_MAP
    /\ Cardinality(reads[1].val) = 2
    /\ writes[2].kind = "rawread" /\ writes[2].ttype = TType_LIST
    /\ Len(reads[2].val.elems) = 2

\* C30: a failure of the stream in readFrame becomes a TTransportException
\* that is END_OF_FILE only when the stream was closed, and of another type
\* for any other fault.
C30_EndOfFileOnlyOnClose ==
    \A c \in Callers :
        /\ result[c].kind = "error" /\ result[c].cause # "NONE" =>
               result[c].err \in {"END_OF_FILE", "UNKNOWN", "NOT_OPEN", "TIMED_OUT"}
        /\ result[c].err = "END_OF_FILE" => result[c].cause = "StreamClosedError"

\* ---------------------------------------------------------------------------
\* TTornadoServer.handle_stream (TTornado.py): the read loop of a connection
\* ---------------------------------------------------------------------------

\* number of frames a client sends on the connection
MaxInbound == 3

\* what read_bytes may raise inside readFrame, and what process may raise
StreamExceptions == {"StreamClosedError", "IOError", "StreamBufferFullError"}

ProcessExceptions == {"TApplicationException", "TTransportException"}

\* the types of TTransportException that TTornadoStreamTransport raises
TransportExceptionTypes == {"UNKNOWN", "NOT_OPEN", "END_OF_FILE"}

\* (variant: every TTransportException of readFrame is raised again)
readFrame_except_raises(type) == "raise"

\* handle_stream, except TTransportException as e: break for END_OF_FILE, else
\* raise
readFrame_except(type) == IF type = "END_OF_FILE" THEN "break" ELSE "raise"

\* (variant: the future of process is not waited for)
yield_process_not_awaited(frame) == "loop"

\* handle_stream, yield self._processor.process(iprot, oprot): the coroutine is
\* suspended until the future of process is done
yield_process(frame) == "process"

\* except Exception: logger.exception(...), trans.close(); then the logger.info
\* after the try block
handle_stream_except(events, source, exc) ==
    events \o << << "raise", source, exc >>, << "logger.exception" >>,
                 << "trans.close" >>, << "exit" >> >>

\* a client sends a frame
ClientSends(frame) ==
    /\ hs_stream = "open"
    /\ Len(hs_arrived) < MaxInbound
    /\ hs_inbound' = Append(hs_inbound, frame)
    /\ hs_arrived' = Append(hs_arrived, frame)
    /\ UNCHANGED << hs_pc, hs_stream, hs_events >>
    /\ UNCHANGED << sp_transport, sp_received, sp_deferred, sp_dispatched >>
    /\ UNCHANGED << readVars, stream, writeVars, saslVars, codecVars, sideVars >>

\* the client closes the connection
ClientCloses ==
    /\ hs_stream = "open"
    /\ hs_stream' = "closed"
    /\ UNCHANGED << hs_pc, hs_inbound, hs_arrived, hs_events >>
    /\ UNCHANGED << sp_transport, sp_received, sp_deferred, sp_dispatched >>
    /\ UNCHANGED << readVars, stream, writeVars, saslVars, codecVars, sideVars >>

\* while not trans.stream.closed(): readFrame is called, or the loop ends
LoopTest ==
    /\ hs_pc = "loop"
    /\ IF hs_stream = "closed"
       THEN /\ hs_pc' = "exit"
            /\ hs_events' = Append(hs_events, << "exit" >>)
       ELSE /\ hs_pc' = "readFrame"
            /\ hs_events' = Append(hs_events, << "readFrame" >>)
    /\ UNCHANGED << hs_stream, hs_inbound, hs_arrived >>
    /\ UNCHANGED << sp_transport, sp_received, sp_deferred, sp_dispatched >>
    /\ UNCHANGED << readVars, stream, writeVars, saslVars, codecVars, sideVars >>

\* readFrame returns the next frame: the protocols are made and process is
\* called
ReadFrameReturns ==
    /\ hs_pc = "readFrame"
    /\ hs_stream = "open"
    /\ hs_inbound # << >>
    /\ hs_inbound' = Tail(hs_inbound)
    /\ hs_events' = hs_events \o << << "frame", Head(hs_inbound) >>,
                                    << "process", Head(hs_inbound) >> >>
    /\ hs_pc' = yield_process(Head(hs_inbound))
    /\ UNCHANGED << hs_stream, hs_arrived >>
    /\ UNCHANGED << sp_transport, sp_received, sp_deferred, sp_dispatched >>
    /\ UNCHANGED << readVars, stream, writeVars, saslVars, codecVars, sideVars >>

\* readFrame raises: read_bytes raised exc, which io_exception_context makes
\* a TTransportException; StreamClosedError on a closed stream, another
\* exception on an open one, which IOStream closes
ReadFrameRaises(exc) ==
    /\ hs_pc = "readFrame"
    /\ exc = "StreamClosedError" <=> hs_stream = "closed"
    /\ LET type == io_exception_context(exc)
       IN  IF type \in TransportExceptionTypes /\ readFrame_except(type) = "break"
           THEN /\ hs_events' = hs_events \o << << "raise", "readFrame", type >>,
                                               << "exit" >> >>
                /\ hs_stream' = "closed"
           ELSE /\ hs_events' = handle_stream_except(hs_events, "readFrame", type)
                /\ hs_stream' = "closed"
    /\ hs_pc' = "exit"
    /\ UNCHANGED << hs_inbound, hs_arrived >>
    /\ UNCHANGED << sp_transport, sp_received, sp_deferred, sp_dispatched >>
    /\ UNCHANGED << readVars, stream, writeVars, saslVars, codecVars, sideVars >>

\* the future of process is done: the loop goes on
ProcessReturns ==
    /\ hs_pc = "process"
    /\ hs_pc' = "loop"
    /\ hs_events' = Append(hs_events, << "processed" >>)
    /\ UNCHANGED << hs_stream, hs_inbound, hs_arrived >>
    /\ UNCHANGED << sp_transport, sp_received, sp_deferred, sp_dispatched >>
    /\ UNCHANGED << readVars, stream, writeVars, saslVars, codecVars, sideVars >>

\* process raises, or its future has an exception
ProcessFails(exc) ==
    /\ hs_pc = "process"
    /\ hs_pc' = "exit"
    /\ hs_events' = handle_stream_except(hs_events, "process", exc)
    /\ hs_stream' = "closed"
    /\ UNCHANGED << hs_inbound, hs_arrived >>
    /\ UNCHANGED << sp_transport, sp_received, sp_deferred, sp_dispatched >>
    /\ UNCHANGED << readVars, stream, writeVars, saslVars, codecVars, sideVars >>

HandleStreamInit == Init /\ stream = "none" /\ frames = << >> /\ wellFormed

HandleStreamNext ==
    \/ \E frame \in Payloads : ClientSends(frame)
    \/ ClientCloses
    \/ LoopTest
    \/ ReadFrameReturns
    \/ \E exc \in StreamExceptions : ReadFrameRaises(exc)
    \/ ProcessReturns
    \/ \E exc \in ProcessExceptions : ProcessFails(exc)

HandleStreamSpec == HandleStreamInit /\ [][HandleStreamNext]_vars

\* the frames of the events named op, in order
RECURSIVE EventFrames(_, _)
EventFrames(events, op) ==
    IF events = << >> THEN << >>
    ELSE (IF Head(events)[1] = op THEN << Head(events)[2] >> ELSE << >>)
         \o EventFrames(Tail(events), op)

\* C27: process is called once for every frame that readFrame returned, with
\* the frames in the order of their arrival, and readFrame is not called
\* again before the process call of the frame before is done.
C27_ProcessOncePerFrameInOrder ==
    /\ EventFrames(hs_events, "process") = EventFrames(hs_events, "frame")
    /\ IsPrefix(EventFrames(hs_events, "process"), hs_arrived)
    /\ \A i \in 1..Len(hs_events) :
           hs_events[i][1] = "process" =>
               /\ hs_events[i - 1] = << "frame", hs_events[i][2] >>
               /\ \A j \in i + 1..Len(hs_events) :
                      hs_events[j][1] = "readFrame" =>
                          \E m \in i + 1..j - 1 : hs_events[m] = << "processed" >>

C27_Witness ==
    /\ EventFrames(hs_events, "process") = << << >>, << 7, 9 >> >>
    /\ hs_pc = "readFrame"
    /\ hs_inbound # << >>

\* C29: END_OF_FILE from readFrame ends the loop with nothing logged as an
\* exception, no trans.close() and no further process call; any other
\* exception from readFrame, and any from process, is logged, closes the
\* transport and ends the loop.
C29_EndOfFileIsDisconnect ==
    \A i \in 1..Len(hs_events) :
        hs_events[i][1] = "raise" =>
            /\ hs_pc = "exit"
            /\ IF hs_events[i][2] = "readFrame" /\ hs_events[i][3] = "END_OF_FILE"
               THEN SubSeq(hs_events, i + 1, Len(hs_events)) = << << "exit" >> >>
               ELSE /\ SubSeq(hs_events, i + 1, Len(hs_events))
                          = << << "logger.exception" >>, << "trans.close" >>, << "exit" >> >>
                    /\ hs_stream = "closed"

C29_Witness ==
    /\ hs_pc = "exit"
    /\ Len(hs_events) >= 5
    /\ hs_events[Len(hs_events) - 1] = << "raise", "readFrame", "END_OF_FILE" >>
    /\ EventFrames(hs_events, "process") # << >>

\* ---------------------------------------------------------------------------
\* ThriftServerProtocol (TTwisted.py): one process call for each frame, the
\* response sent by the callback of its Deferred
\* ---------------------------------------------------------------------------

\* number of request frames a client sends on the connection
MaxRequests == 3

\* what process wrote to tmo when its Deferred fires: a response, or nothing
\* for a oneway call
Responses == {<< >>, << 3 >>, << 3, 4 >>}

\* ThriftServerProtocol.dispatch: self.sendString(msg); a transport that was
\* told to lose the connection drops what is written
ThriftServerProtocol_dispatch(sent_out, t, request, msg) ==
    IF t = "open" THEN Append(sent_out, [request |-> request, bytes |-> sendString(msg)])
    ELSE sent_out

\* processOk: msg = tmo.getvalue(); dispatch(msg) if len(msg) > 0
processOk(sent_out, t, request, msg) ==
    IF Len(msg) > 0 THEN ThriftServerProtocol_dispatch(sent_out, t, request, msg)
    ELSE sent_out

\* processError: self.transport.loseConnection()
processError(t) == "lost"

\* d.addCallbacks(self.processOk, self.processError, callbackArgs=(tmo,)) on a
\* Deferred that has a result, and the firing of a Deferred that has the
\* callbacks: processOk runs for a result, processError for a failure
RunCallbacks(request, outcome, msg) ==
    /\ sp_dispatched' = IF outcome = "ok"
                        THEN processOk(sp_dispatched, sp_transport, request, msg)
                        ELSE sp_dispatched
    /\ sp_transport' = IF outcome = "failure" THEN processError(sp_transport)
                       ELSE sp_transport

\* stringReceived: process is called on the frame; its Deferred is pending,
\* or has a result already, and gets the callbacks
StringReceived(outcome, msg) ==
    /\ sp_transport = "open"
    /\ Len(sp_received) < MaxRequests
    /\ sp_received' = Append(sp_received, Len(sp_received) + 1)
    /\ sp_deferred' = Append(sp_deferred, outcome)
    /\ IF outcome = "pending" THEN UNCHANGED << sp_dispatched, sp_transport >>
       ELSE RunCallbacks(Len(sp_received) + 1, outcome, msg)
    /\ UNCHANGED << hs_pc, hs_stream, hs_inbound, hs_arrived, hs_events >>
    /\ UNCHANGED << readVars, stream, writeVars, saslVars, codecVars, sideVars >>

\* the handler of a request finishes: its Deferred fires
DeferredFires(request, outcome, msg) ==
    /\ request \in 1..Len(sp_deferred)
    /\ sp_deferred[request] = "pending"
    /\ sp_deferred' = [sp_deferred EXCEPT ![request] = outcome]
    /\ RunCallbacks(request, outcome, msg)
    /\ UNCHANGED sp_received
    /\ UNCHANGED << hs_pc, hs_stream, hs_inbound, hs_arrived, hs_events >>
    /\ UNCHANGED << readVars, stream, writeVars, saslVars, codecVars, sideVars >>

ServerProtocolNext ==
    \/ \E outcome \in {"pending", "ok", "failure"} : \E msg \in Responses :
           StringReceived(outcome, msg)
    \/ \E request \in 1..MaxRequests : \E outcome \in {"ok", "failure"} :
           \E msg \in Responses : DeferredFires(request, outcome, msg)

ServerProtocolSpec == HandleStreamInit /\ [][ServerProtocolNext]_vars

\* C28: the responses are dispatched in the order in which their requests
\* were received, whatever the order in which the Deferreds fire.
C28_ResponsesInRequestOrder ==
    \A a, b \in 1..Len(sp_dispatched) :
        a < b => sp_dispatched[a].request < sp_dispatched[b].request

\* ---------------------------------------------------------------------------
\* readFrame and a negative declared frame length
\* ---------------------------------------------------------------------------

\* C31: readFrame requests no body read for a header that declares a negative
\* length: every read_bytes call issued for a body has a count of at least 0.
C31_NegativeLengthFailsFast ==
    \A i \in 1..Len(readLog) : readLog[i].kind = "body" => readLog[i].n >= 0

\* ---------------------------------------------------------------------------
\* _check_length and checkIntegerLimits (TProtocol.py)
\* ---------------------------------------------------------------------------

\* number of checks made in one run
MaxChecks == 1

\* the lengths tried are -MaxLength..MaxLength, the limits 0..MaxLength
MaxLength == 3

\* limit: the empty tuple for None, a one-element tuple for a configured limit
NoLimit == << >>

Limits == {NoLimit} \cup {<< n >> : n \in 0..MaxLength}

\* (variant: a length equal to the limit is refused)
_check_length_at_limit(limit, length) ==
    IF length < 0 THEN "NEGATIVE_SIZE"
    ELSE IF limit # NoLimit /\ length >= limit[1] THEN "SIZE_LIMIT"
    ELSE "ok"

\* TProtocolBase._check_length: the type of the exception raised, or "ok"
_check_length(limit, length) ==
    IF length < 0 THEN "NEGATIVE_SIZE"
    ELSE IF limit # NoLimit /\ length > limit[1] THEN "SIZE_LIMIT"
    ELSE "ok"

\* Python integers have no width: an integer is a sign and a magnitude, the
\* magnitude a sequence of base-65536 digits, least significant first, with no
\* leading zero digit
Big(neg, mag) == [neg |-> neg, mag |-> mag]

\* magnitudes: a < b
RECURSIVE MagLess(_, _)
MagLess(a, b) ==
    IF Len(a) # Len(b) THEN Len(a) < Len(b)
    ELSE IF Len(a) = 0 THEN FALSE
    ELSE IF a[Len(a)] # b[Len(b)] THEN a[Len(a)] < b[Len(b)]
    ELSE MagLess(SubSeq(a, 1, Len(a) - 1), SubSeq(b, 1, Len(b) - 1))

\* Python's i < j
BigLess(i, j) ==
    IF i.neg /\ ~j.neg THEN TRUE
    ELSE IF ~i.neg /\ j.neg THEN FALSE
    ELSE IF i.neg THEN MagLess(j.mag, i.mag)
    ELSE MagLess(i.mag, j.mag)

\* (variant: the upper bound of i16 is taken for i32 too)
checkIntegerLimits_i32_as_i16(i, bits) ==
    IF bits = 8 /\ (BigLess(i, Big(TRUE, << 128 >>)) \/ BigLess(Big(FALSE, << 127 >>), i))
    THEN "INVALID_DATA"
    ELSE IF bits = 16 /\ (\/ BigLess(i, Big(TRUE, << 32768 >>))
                          \/ BigLess(Big(FALSE, << 32767 >>), i))
    THEN "INVALID_DATA"
    ELSE IF bits = 32 /\ (\/ BigLess(i, Big(TRUE, << 0, 32768 >>))
                          \/ BigLess(Big(FALSE, << 32767 >>), i))
    THEN "INVALID_DATA"
    ELSE IF bits = 64 /\ (\/ BigLess(i, Big(TRUE, << 0, 0, 0, 32768 >>))
                          \/ BigLess(Big(FALSE, << 65535, 65535, 65535, 32767 >>), i))
    THEN "INVALID_DATA"
    ELSE "ok"

\* checkIntegerLimits: the type of the TProtocolException raised, or "ok";
\* 2147483648 is << 0, 32768 >>, 9223372036854775807 is
\* << 65535, 65535, 65535, 32767 >>
checkIntegerLimits(i, bits) ==
    IF bits = 8 /\ (BigLess(i, Big(TRUE, << 128 >>)) \/ BigLess(Big(FALSE, << 127 >>), i))
    THEN "INVALID_DATA"
    ELSE IF bits = 16 /\ (\/ BigLess(i, Big(TRUE, << 32768 >>))
                          \/ BigLess(Big(FALSE, << 32767 >>), i))
    THEN "INVALID_DATA"
    ELSE IF bits = 32 /\ (\/ BigLess(i, Big(TRUE, << 0, 32768 >>))
                          \/ BigLess(Big(FALSE, << 65535, 32767 >>), i))
    THEN "INVALID_DATA"
    ELSE IF bits = 64 /\ (\/ BigLess(i, Big(TRUE, << 0, 0, 0, 32768 >>))
                          \/ BigLess(Big(FALSE, << 65535, 65535, 65535, 32767 >>), i))
    THEN "INVALID_DATA"
    ELSE "ok"

\* the widths the callers of checkIntegerLimits pass
Widths == {8, 16, 32, 64}

\* the magnitude 2^n: n \div 16 zero digits below the digit 2^(n % 16)
MagPow2(n) ==
    [k \in 1..(n \div 16 + 1) |-> IF k = n \div 16 + 1 THEN 2 ^ (n % 16) ELSE 0]

\* the magnitude m + 1
RECURSIVE MagInc(_)
MagInc(m) ==
    IF Len(m) = 0 THEN << 1 >>
    ELSE IF Head(m) < 65535 THEN << Head(m) + 1 >> \o Tail(m)
    ELSE << 0 >> \o MagInc(Tail(m))

\* the magnitude m - 1, for m of at least 2
RECURSIVE MagDec(_)
MagDec(m) ==
    IF Head(m) > 0
    THEN (IF Len(m) = 1 /\ Head(m) = 1 THEN << >> ELSE << Head(m) - 1 >> \o Tail(m))
    ELSE LET rest == MagDec(Tail(m))
         IN  << 65535 >> \o rest

\* the integers tried: 0, 1, -1 and, for each width, the two ends of its signed
\* range with their neighbours on both sides
Integers64 ==
    {Big(FALSE, << >>), Big(FALSE, << 1 >>), Big(TRUE, << 1 >>)}
    \cup UNION {LET p == MagPow2(bits - 1)
                IN  {Big(TRUE, MagInc(p)), Big(TRUE, p), Big(TRUE, MagDec(p)),
                     Big(FALSE, MagDec(MagDec(p))), Big(FALSE, MagDec(p)), Big(FALSE, p)}
                : bits \in Widths}

\* one call of _check_length, as the readers of a protocol make it
CheckLength(limit, length) ==
    /\ Len(checks) < MaxChecks
    /\ UNCHANGED << http_ctor, tssl, clientVars >>
    /\ checks' = Append(checks, [fn |-> "_check_length", limit |-> limit,
                                 length |-> length, i |-> Big(FALSE, << >>), bits |-> 0,
                                 outcome |-> _check_length(limit, length)])
    /\ UNCHANGED << readVars, stream, writeVars, saslVars, codecVars, serverVars >>

\* one call of checkIntegerLimits, as the writers of a protocol make it
CheckIntegerLimits(i, bits) ==
    /\ Len(checks) < MaxChecks
    /\ UNCHANGED << http_ctor, tssl, clientVars >>
    /\ checks' = Append(checks, [fn |-> "checkIntegerLimits", limit |-> NoLimit,
                                 length |-> 0, i |-> i, bits |-> bits,
                                 outcome |-> checkIntegerLimits(i, bits)])
    /\ UNCHANGED << readVars, stream, writeVars, saslVars, codecVars, serverVars >>

LimitsNext ==
    \/ \E limit \in Limits : \E length \in (0 - MaxLength)..MaxLength :
           CheckLength(limit, length)
    \/ \E i \in Integers64 : \E bits \in Widths : CheckIntegerLimits(i, bits)

LimitsSpec == CodecSideInit /\ [][LimitsNext]_vars

\* C32: _check_length fails with NEGATIVE_SIZE exactly for a negative length,
\* with SIZE_LIMIT exactly for a non-negative length above a configured limit,
\* and returns otherwise.
C32_CheckLength ==
    \A k \in 1..Len(checks) :
        checks[k].fn = "_check_length" =>
            LET c == checks[k]
            IN  /\ c.outcome = "NEGATIVE_SIZE" <=> c.length < 0
                /\ c.outcome = "SIZE_LIMIT" <=>
                       (c.length >= 0 /\ c.limit # NoLimit /\ c.length > c.limit[1])
                /\ c.outcome = "ok" <=>
                       (c.length >= 0 /\ (c.limit = NoLimit \/ c.length <= c.limit[1]))

\* a length equal to the limit, and a negative length under a limit, were checked
C32_Witness ==
    \E k \in 1..Len(checks) :
        /\ checks[k].fn = "_check_length"
        /\ checks[k].limit # NoLimit
        /\ checks[k].length = checks[k].limit[1]
        /\ checks[k].length > 0
        /\ checks[k].outcome = "ok"

\* i lies in the signed range of the width: -2^(bits-1) <= i <= 2^(bits-1) - 1
InSignedRange(i, bits) ==
    LET p == MagPow2(bits - 1)
    IN  IF i.neg THEN ~MagLess(p, i.mag) ELSE MagLess(i.mag, p)

\* C34: checkIntegerLimits(i, bits), bits one of 8, 16, 32, 64, raises
\* INVALID_DATA exactly when i is outside the signed range of that width, and
\* returns for every i inside it, both ends included.
C34_CheckIntegerLimits ==
    \A k \in 1..Len(checks) :
        checks[k].fn = "checkIntegerLimits" =>
            /\ checks[k].outcome \in {"ok", "INVALID_DATA"}
            /\ checks[k].outcome = "ok" <=> InSignedRange(checks[k].i, checks[k].bits)

\* the upper end of the i32 range was accepted
C34_Witness ==
    \E k \in 1..Len(checks) :
        /\ checks[k].fn = "checkIntegerLimits"
        /\ checks[k].bits = 32
        /\ checks[k].i = Big(FALSE, << 65535, 32767 >>)
        /\ checks[k].outcome = "ok"

\* ---------------------------------------------------------------------------
\* skip on deeply nested values
\* ---------------------------------------------------------------------------

\* the values sent are nested 1..MaxDepth levels deep
MaxDepth == 4

\* the recursion depth a configuration would allow; TProtocolBase has no such
\* setting, so every depth below MaxDepth stands for it
RecursionLimit == 2

\* the tokens of a list in a list ..., a struct in a struct ..., a map whose
\* value is a map ..., depth levels deep, the innermost holding an i32
RECURSIVE Nested(_, _)
Nested(kind, depth) ==
    IF depth = 0 THEN << << "I32", 1 >> >>
    ELSE IF kind = TType_LIST
    THEN << << "ListBegin", IF depth = 1 THEN TType_I32 ELSE TType_LIST, 1 >> >>
             \o Nested(kind, depth - 1) \o << << "ListEnd" >> >>
    ELSE IF kind = TType_MAP
    THEN << << "MapBegin", TType_I32, IF depth = 1 THEN TType_I32 ELSE TType_MAP, 1 >>,
            << "I32", 7 >> >>
             \o Nested(kind, depth - 1) \o << << "MapEnd" >> >>
    ELSE << << "StructBegin", "S" >>,
            << "FieldBegin", "f", IF depth = 1 THEN TType_I32 ELSE TType_STRUCT, 1 >> >>
             \o Nested(kind, depth - 1)
             \o << << "FieldEnd" >>, << "FieldStop" >>, << "StructEnd" >> >>

NestedInput(kind, depth) == RawSkip(Nested(kind, depth), kind, 0)

\* the levels of nesting in the tokens of a value
NestingOf(toks) ==
    Cardinality({i \in 1..Len(toks) : toks[i][1] \in {"ListBegin", "MapBegin", "StructBegin"}})

DepthNext ==
    \/ \E kind \in {TType_LIST, TType_MAP, TType_STRUCT} : \E depth \in 1..MaxDepth :
           PeerSend(NestedInput(kind, depth))
    \/ Skip

DepthSpec == CodecSideInit /\ [][DepthNext]_vars

\* C33: skip of a value nested deeper than the recursion depth allowed fails
\* with a DEPTH_LIMIT protocol error instead of recursing further.
C33_DepthLimit ==
    \A k \in 1..Len(reads) :
        NestingOf(writes[k].in.toks) > RecursionLimit => reads[k].err = "DEPTH_LIMIT"

\* ---------------------------------------------------------------------------
\* THttpClient.__init__ and the TLS versions of its SSL context
\* ---------------------------------------------------------------------------

\* ssl.TLSVersion is an IntEnum: the members and their values
TLSVersionValue(v) ==
    CASE v = "MINIMUM_SUPPORTED" -> 0 - 2
      [] v = "MAXIMUM_SUPPORTED" -> 0 - 1
      [] v = "SSLv3" -> 768
      [] v = "TLSv1" -> 769
      [] v = "TLSv1_1" -> 770
      [] v = "TLSv1_2" -> 771
      [] v = "TLSv1_3" -> 772

\* what context.minimum_version and context.maximum_version can read as: an
\* unset minimum reads MINIMUM_SUPPORTED, an unset maximum MAXIMUM_SUPPORTED
MinimumVersions == {"MINIMUM_SUPPORTED", "SSLv3", "TLSv1", "TLSv1_1", "TLSv1_2", "TLSv1_3"}

MaximumVersions == {"MAXIMUM_SUPPORTED", "SSLv3", "TLSv1", "TLSv1_1", "TLSv1_2", "TLSv1_3"}

SSLContext(minimum, maximum) == [minimum_version |-> minimum, maximum_version |-> maximum]

SSLContexts == {SSLContext(lo, hi) : lo \in MinimumVersions, hi \in MaximumVersions}

NoContext == SSLContext("none", "none")

\* _enforce_minimum_tls(context): the context after the call and the exception
\* raised; ssl has TLSVersion and the context has both attributes
_enforce_minimum_tls(context) ==
    LET minimum == "TLSv1_2"
        raised == IF TLSVersionValue(context.minimum_version) < TLSVersionValue(minimum)
                  THEN [context EXCEPT !.minimum_version = minimum]
                  ELSE context
    IN  IF /\ raised.maximum_version # "MAXIMUM_SUPPORTED"
           /\ TLSVersionValue(raised.maximum_version) < TLSVersionValue(minimum)
        THEN [context |-> raised, exc |-> "ValueError"]
        ELSE [context |-> raised, exc |-> "none"]

\* (variant: a supplied context is raised to TLS 1.2 instead of refused)
_validate_minimum_tls_enforcing(context) == _enforce_minimum_tls(context)

\* _validate_minimum_tls(context): the context after the call and the exception
\* raised
_validate_minimum_tls(context) ==
    LET minimum == "TLSv1_2"
    IN  IF TLSVersionValue(context.minimum_version) < TLSVersionValue(minimum)
        THEN [context |-> context, exc |-> "ValueError"]
        ELSE IF /\ context.maximum_version # "MAXIMUM_SUPPORTED"
                /\ TLSVersionValue(context.maximum_version) < TLSVersionValue(minimum)
        THEN [context |-> context, exc |-> "ValueError"]
        ELSE [context |-> context, exc |-> "none"]

\* the arguments of THttpClient(...) and their surroundings: with_port is the
\* deprecated THttpClient(host, port, path); scheme and hostname are what
\* urlparse finds in the uri; ssl_context is NoContext for None; created is what
\* ssl.create_default_context returns on this system
HttpArgs ==
    [with_port : BOOLEAN, scheme : {"http", "https"}, hostname : BOOLEAN,
     ssl_context : {NoContext} \cup SSLContexts, created : SSLContexts,
     cert_file : BOOLEAN, key_file : BOOLEAN]

\* a constructor that did not get as far as self.context
HttpRaised(a, exc, supplied) ==
    [args |-> a, exc |-> exc, scheme |-> "none", context |-> NoContext,
     supplied |-> supplied]

\* THttpClient.__init__ up to self.path: the exception raised, self.scheme,
\* self.context, and the caller's ssl_context as the call leaves it
THttpClient__init__(a) ==
    IF a.with_port
    THEN [args |-> a, exc |-> "none", scheme |-> "http", context |-> NoContext,
          supplied |-> a.ssl_context]
    ELSE IF a.scheme = "http"
    THEN IF a.hostname
         THEN [args |-> a, exc |-> "none", scheme |-> "http", context |-> NoContext,
               supplied |-> a.ssl_context]
         ELSE HttpRaised(a, "ValueError", a.ssl_context)
    ELSE IF a.ssl_context # NoContext
    THEN LET v == _validate_minimum_tls(a.ssl_context)
         IN  IF v.exc # "none" THEN HttpRaised(a, v.exc, v.context)
             ELSE IF ~a.hostname THEN HttpRaised(a, "ValueError", v.context)
             ELSE [args |-> a, exc |-> "none", scheme |-> "https",
                   context |-> v.context, supplied |-> v.context]
    ELSE IF ~a.cert_file /\ a.key_file
    THEN HttpRaised(a, "ValueError", a.ssl_context)
    ELSE LET e == _enforce_minimum_tls(a.created)
         IN  IF e.exc # "none" THEN HttpRaised(a, e.exc, a.ssl_context)
             ELSE IF ~a.hostname THEN HttpRaised(a, "ValueError", a.ssl_context)
             ELSE [args |-> a, exc |-> "none", scheme |-> "https",
                   context |-> e.context, supplied |-> a.ssl_context]

\* the arguments tried: a supplied context with any versions, or a created one
\* with any versions
HttpInputs ==
    {a \in HttpArgs : \/ a.ssl_context = NoContext
                      \/ a.created = SSLContext("TLSv1_2", "MAXIMUM_SUPPORTED")}

\* the THttpClient of the run is constructed
NewHttpClient(a) ==
    /\ http_ctor = << >>
    /\ http_ctor' = Append(http_ctor, THttpClient__init__(a))
    /\ UNCHANGED << checks, tssl, clientVars >>
    /\ UNCHANGED << readVars, stream, writeVars, saslVars, codecVars, serverVars >>

HttpTlsNext == \E a \in HttpInputs : NewHttpClient(a)

HttpTlsSpec == CodecSideInit /\ [][HttpTlsNext]_vars

\* version v is TLS 1.2 or later
AtLeastTls12(v) == v \in {"TLSv1_2", "TLSv1_3"}

\* a context that allows a version below TLS 1.2
BelowTls12(context) ==
    \/ ~AtLeastTls12(context.minimum_version)
    \/ ~(context.maximum_version = "MAXIMUM_SUPPORTED" \/ AtLeastTls12(context.maximum_version))

\* C35: a THttpClient constructed for an https URI has a context whose
\* minimum_version is at least TLS 1.2 and whose maximum_version is
\* MAXIMUM_SUPPORTED or at least TLS 1.2; a created context has its minimum
\* raised to TLS 1.2 and never lowered; a supplied context that allows less is
\* refused with ValueError and left as it was.
C35_HttpsContextAtLeastTls12 ==
    \A k \in 1..Len(http_ctor) :
        LET c == http_ctor[k]
            https == ~c.args.with_port /\ c.args.scheme = "https"
        IN  /\ (https /\ c.exc = "none") =>
                   /\ c.scheme = "https"
                   /\ ~BelowTls12(c.context)
            /\ (https /\ c.exc = "none" /\ c.args.ssl_context = NoContext) =>
                   /\ c.context.maximum_version = c.args.created.maximum_version
                   /\ c.context.minimum_version =
                          IF AtLeastTls12(c.args.created.minimum_version)
                          THEN c.args.created.minimum_version ELSE "TLSv1_2"
            /\ (https /\ c.args.ssl_context # NoContext /\ BelowTls12(c.args.ssl_context)) =>
                   /\ c.exc = "ValueError"
            /\ c.supplied = c.args.ssl_context

\* a created context that allowed TLS 1.0 was raised to TLS 1.2
C35_Witness ==
    \E k \in 1..Len(http_ctor) :
        /\ ~http_ctor[k].args.with_port
        /\ http_ctor[k].args.scheme = "https"
        /\ http_ctor[k].args.ssl_context = NoContext
        /\ http_ctor[k].args.created.minimum_version = "TLSv1"
        /\ http_ctor[k].exc = "none"
        /\ http_ctor[k].context.minimum_version = "TLSv1_2"

\* ---------------------------------------------------------------------------
\* TSSLBase (TSSLSocket.py): the SSL context of a socket without ssl_context
\* ---------------------------------------------------------------------------

\* number of _wrap_socket calls on the socket: one for each connection accepted
MaxWraps == 2

\* ssl.SSLContext(protocol): PROTOCOL_TLS_CLIENT starts with check_hostname on
\* and CERT_REQUIRED, PROTOCOL_TLS_SERVER with check_hostname off and CERT_NONE
ssl_SSLContext(server_side) ==
    IF server_side THEN [check_hostname |-> FALSE, verify_mode |-> "CERT_NONE"]
    ELSE [check_hostname |-> TRUE, verify_mode |-> "CERT_REQUIRED"]

\* context.check_hostname = value: turning it on with CERT_NONE makes the
\* verify_mode CERT_REQUIRED
set_check_hostname(context, value) ==
    [context EXCEPT !.check_hostname = value,
                    !.verify_mode = IF value /\ @ = "CERT_NONE" THEN "CERT_REQUIRED" ELSE @]

\* context.verify_mode = value raises ValueError for CERT_NONE while
\* check_hostname is on
verify_mode_refused(context, value) == context.check_hostname /\ value = "CERT_NONE"

\* bool(x) of a hostname argument: None and '' are false
bool(x) == x \notin {"None", ""}

\* the arguments of TSSLBase.__init__: host is None for a server socket;
\* "absent" is a keyword left out of ssl_opts; ca_certs and certfile are TRUE
\* for a readable file
TSSLArgs ==
    {a \in [server_side : BOOLEAN, host : {"None", "", "localhost"},
            server_hostname : {"absent", "None", "", "example.org"},
            cert_reqs : {"absent", "CERT_NONE", "CERT_OPTIONAL", "CERT_REQUIRED"},
            ca_certs : BOOLEAN, certfile : BOOLEAN, ssl_context : BOOLEAN] :
        a.server_side => a.host = "None"}

\* TSSLBase.__init__: the attributes of the object, or the exception raised
TSSLBase__init__(a) ==
    LET _server_hostname == IF a.server_side THEN "None"
                            ELSE IF a.server_hostname = "absent" THEN a.host
                            ELSE a.server_hostname
        cert_reqs == IF a.cert_reqs = "absent" THEN "CERT_REQUIRED" ELSE a.cert_reqs
        obj == [args |-> a, exc |-> "none", _server_side |-> a.server_side,
                _server_hostname |-> _server_hostname,
                _custom_context |-> a.ssl_context, cert_reqs |-> cert_reqs,
                _context |-> ssl_SSLContext(a.server_side), wrapped |-> 0]
    IN  IF a.ssl_context
        THEN IF a.cert_reqs # "absent" \/ a.ca_certs \/ a.certfile
                  \/ (a.server_side /\ a.server_hostname # "absent")
             THEN [obj EXCEPT !.exc = "ValueError"]
             ELSE obj
        ELSE IF a.server_side /\ ~a.certfile THEN [obj EXCEPT !.exc = "ValueError"]
        ELSE IF a.server_side /\ a.server_hostname # "absent"
        THEN [obj EXCEPT !.exc = "ValueError"]
        ELSE IF cert_reqs # "CERT_NONE" /\ ~a.ca_certs
        THEN [obj EXCEPT !.exc = "ValueError"]
        ELSE obj

\* (variant: the hostname check follows cert_reqs alone)
_wrap_socket_without_hostname(obj) ==
    IF obj._custom_context THEN [obj EXCEPT !.wrapped = @ + 1]
    ELSE LET checked == set_check_hostname(obj._context,
                            ~obj._server_side
                            /\ obj.cert_reqs \in {"CERT_REQUIRED", "CERT_OPTIONAL"})
         IN  IF verify_mode_refused(checked, obj.cert_reqs)
             THEN [obj EXCEPT !._context = checked, !.exc = "ValueError"]
             ELSE [obj EXCEPT !._context = [checked EXCEPT !.verify_mode = obj.cert_reqs],
                              !.wrapped = @ + 1]

\* TSSLBase._wrap_socket: the context is set up unless it is the caller's own
_wrap_socket(obj) ==
    IF obj._custom_context THEN [obj EXCEPT !.wrapped = @ + 1]
    ELSE LET checked ==
                 IF obj._server_side THEN set_check_hostname(obj._context, FALSE)
                 ELSE set_check_hostname(obj._context,
                          /\ obj.cert_reqs \in {"CERT_REQUIRED", "CERT_OPTIONAL"}
                          /\ bool(obj._server_hostname))
         IN  IF verify_mode_refused(checked, obj.cert_reqs)
             THEN [obj EXCEPT !._context = checked, !.exc = "ValueError"]
             ELSE [obj EXCEPT !._context = [checked EXCEPT !.verify_mode = obj.cert_reqs],
                              !.wrapped = @ + 1]

\* TSSLSocket(...) or TSSLServerSocket(...)
NewTSSL(a) ==
    /\ tssl = << >>
    /\ tssl' = << TSSLBase__init__(a) >>
    /\ UNCHANGED << checks, http_ctor, clientVars >>
    /\ UNCHANGED << readVars, stream, writeVars, saslVars, codecVars, serverVars >>

\* open() of a client socket, or accept() of a server socket, wraps a socket
WrapSocket ==
    /\ tssl # << >>
    /\ tssl[1].exc = "none"
    /\ tssl[1].wrapped < MaxWraps
    /\ tssl' = << _wrap_socket(tssl[1]) >>
    /\ UNCHANGED << checks, http_ctor, clientVars >>
    /\ UNCHANGED << readVars, stream, writeVars, saslVars, codecVars, serverVars >>

TSSLNext ==
    \/ \E a \in TSSLArgs : NewTSSL(a)
    \/ WrapSocket

TSSLSpec == CodecSideInit /\ [][TSSLNext]_vars

\* C36: after _wrap_socket on a socket built without ssl_context,
\* check_hostname is on exactly when the socket is client-side, cert_reqs is
\* CERT_REQUIRED or CERT_OPTIONAL and server_hostname is not empty.
C36_CheckHostname ==
    \A k \in 1..Len(tssl) :
        (tssl[k].wrapped > 0 /\ ~tssl[k]._custom_context) =>
            (tssl[k]._context.check_hostname <=>
                 /\ ~tssl[k]._server_side
                 /\ tssl[k].cert_reqs \in {"CERT_REQUIRED", "CERT_OPTIONAL"}
                 /\ tssl[k]._server_hostname \notin {"None", ""})

\* a client socket with CERT_REQUIRED and an empty server_hostname was wrapped
\* and does not check the hostname
C36_Witness ==
    \E k \in 1..Len(tssl) :
        /\ tssl[k].wrapped > 0
        /\ ~tssl[k]._custom_context
        /\ ~tssl[k]._server_side
        /\ tssl[k].cert_reqs = "CERT_REQUIRED"
        /\ tssl[k]._server_hostname = ""
        /\ ~tssl[k]._context.check_hostname

\* ---------------------------------------------------------------------------
\* COMPLETE and the first frame in one dataReceived call
\* ---------------------------------------------------------------------------

\* the client waits for a negotiation message, its SASL client is complete, and
\* the bytes in flight are COMPLETE followed by one secured frame
CompleteThenFrame(m) ==
    /\ transport = "open"
    /\ sasl_pc = "receive"
    /\ _sasl_negotiation_deferred = "pending"
    /\ sasl_complete
    /\ _unprocessed = << >>
    /\ net = ServerBytes(SaslMsg(COMPLETE, << >>)) \o ServerBytes(AppMsg(m))

\* C37: a dataReceived call that carries COMPLETE and then the first frame
\* ends the negotiation with COMPLETE, and unwraps the frame and delivers it
\* to the client.
C37_CompleteThenFrameDelivered ==
    [][\A m \in AppMessages :
           (CompleteThenFrame(m) /\ net' = << >>) =>
               /\ sasl_pc' = "completed"
               /\ _sasl_negotiation_deferred' = "None"
               /\ client'
               /\ transport' = "open"
               /\ negotiated' = Append(negotiated, << COMPLETE, << >> >>)
               /\ delivered' = Append(delivered, m)
               /\ errors' = errors]_vars

\* COMPLETE and a frame were sent before the client was given either, then
\* given in one call, and the frame was delivered
C37_Witness ==
    /\ outOfTurn
    /\ chunked = 0
    /\ serverSent = << SaslMsg(COMPLETE, << >>), AppMsg(<< 7 >>) >>
    /\ net = << >>
    /\ negotiated = << << COMPLETE, << >> >> >>
    /\ delivered = << << 7 >> >>
    /\ sasl_pc = "completed"

\* ---------------------------------------------------------------------------
\* the layout of a written container
\* ---------------------------------------------------------------------------

\* the tokens of one write for each of vals, in order
RECURSIVE ElementWrites(_, _, _, _)
ElementWrites(ttype, vals, spec, espec) ==
    IF vals = << >> THEN << >>
    ELSE _write_by_ttype(ttype, << Head(vals) >>, spec, espec).toks
             \o ElementWrites(ttype, Tail(vals), spec, espec)

\* the tokens of a key write followed by a value write for each of items
RECURSIVE EntryWrites(_, _)
EntryWrites(items, spec) ==
    IF items = << >> THEN << >>
    ELSE _write_by_ttype(spec.ktype, << Head(items)[1] >>, spec, spec.kspec).toks
             \o _write_by_ttype(spec.vtype, << Head(items)[2] >>, spec, spec.vspec).toks
             \o EntryWrites(Tail(items), spec)

\* the types written by one token
IsPrimitive(ttype) ==
    ttype \in {TType_BOOL, TType_BYTE, TType_DOUBLE, TType_I16, TType_I32, TType_I64,
               TType_STRING, TType_UUID}

\* C38: a list or a set is written as Begin(element type, len(val)), exactly
\* len(val) element writes, End; a map as MapBegin(key type, value type,
\* len(val)), for each entry its key and then its value, MapEnd.
C38_ContainerCountExact ==
    \A k \in 1..Len(writes) :
        (writes[k].kind = "field" /\ writes[k].err = "none") =>
            LET w == writes[k]
                toks == ItemTokens(k)
            IN  /\ w.ttype = TType_LIST =>
                       /\ toks = << << "ListBegin", w.spec.ttype, Len(w.val.elems) >> >>
                                 \o ElementWrites(w.spec.ttype, w.val.elems, w.spec,
                                                  w.spec.tspec)
                                 \o << << "ListEnd" >> >>
                       /\ IsPrimitive(w.spec.ttype) => Len(toks) = Len(w.val.elems) + 2
                /\ w.ttype = TType_SET =>
                       /\ toks = << << "SetBegin", w.spec.ttype, Cardinality(w.val) >> >>
                                 \o ElementWrites(w.spec.ttype, Iterate(w.val), w.spec,
                                                  w.spec.tspec)
                                 \o << << "SetEnd" >> >>
                       /\ IsPrimitive(w.spec.ttype) => Len(toks) = Cardinality(w.val) + 2
                /\ w.ttype = TType_MAP =>
                       /\ toks = << << "MapBegin", w.spec.ktype, w.spec.vtype,
                                       Cardinality(w.val) >> >>
                                 \o EntryWrites(Iterate(w.val), w.spec)
                                 \o << << "MapEnd" >> >>
                       /\ (IsPrimitive(w.spec.ktype) /\ IsPrimitive(w.spec.vtype)) =>
                              Len(toks) = 2 * Cardinality(w.val) + 2

\* a list of two or more elements and a map of two or more entries were written
C38_Witness ==
    /\ \E k \in 1..Len(writes) :
           /\ writes[k].kind = "field" /\ writes[k].err = "none"
           /\ writes[k].ttype = TType_LIST
           /\ Len(writes[k].val.elems) >= 2
    /\ \E k \in 1..Len(writes) :
           /\ writes[k].kind = "field" /\ writes[k].err = "none"
           /\ writes[k].ttype = TType_MAP
           /\ Cardinality(writes[k].val) >= 2

\* ---------------------------------------------------------------------------
\* ThriftClientProtocol.connectionLost and the pending requests
\* ---------------------------------------------------------------------------

\* number of requests registered on one connection
MaxCalls == 4

\* a pending request: its seqid, and whether an errback registered it while
\* connectionLost was running
Request(seqid, late) == [seqid |-> seqid, late |-> late]

\* what connectionLost leaves: the client, its requests, the last seqid, the
\* calls made on the requests
Lost(c, reqs, issued, outcomes) ==
    [client |-> c, reqs |-> reqs, issued |-> issued, outcomes |-> outcomes]

RECURSIVE fail_pending_snapshot(_, _, _, _)
RECURSIVE fail_pending(_, _, _, _)

\* (variant: the requests present at the start are failed, later ones are not)
fail_pending_snapshot(reqs, issued, outcomes, retry) ==
    IF reqs = << >> THEN Lost(FALSE, << >>, issued, outcomes)
    ELSE LET v == reqs[Len(reqs)]
             rest == SubSeq(reqs, 1, Len(reqs) - 1)
             failed == Append(outcomes, [seqid |-> v.seqid, by |-> "errback",
                                         type |-> "END_OF_FILE", late |-> v.late])
         IN  IF v.seqid \in retry /\ issued < MaxCalls
             THEN fail_pending_snapshot(rest, issued + 1, failed, retry)
             ELSE fail_pending_snapshot(rest, issued, failed, retry)

\* the loop of connectionLost: popitem takes the request inserted last, its
\* errback is called with the END_OF_FILE exception; the errbacks of the
\* requests in retry register a new request; then _reqs is deleted and the
\* client dropped
fail_pending(reqs, issued, outcomes, retry) ==
    IF reqs = << >> THEN Lost(FALSE, << >>, issued, outcomes)
    ELSE LET v == reqs[Len(reqs)]
             rest == SubSeq(reqs, 1, Len(reqs) - 1)
             failed == Append(outcomes, [seqid |-> v.seqid, by |-> "errback",
                                         type |-> "END_OF_FILE", late |-> v.late])
         IN  IF v.seqid \in retry /\ issued < MaxCalls
             THEN fail_pending(Append(rest, Request(issued + 1, TRUE)), issued + 1,
                               failed, retry)
             ELSE fail_pending(rest, issued, failed, retry)

\* ThriftClientProtocol.connectionLost, and that of ThriftSASLClientProtocol,
\* which calls it under the same test: nothing without a client
ThriftClientProtocol_connectionLost(c, reqs, issued, outcomes, retry) ==
    IF c THEN fail_pending(reqs, issued, outcomes, retry)
    ELSE Lost(c, reqs, issued, outcomes)

\* the connection is made: ThriftClientProtocol creates the client at once,
\* ThriftSASLClientProtocol starts the negotiation
ClientConnected(sasl) ==
    /\ cl_pc = "unconnected"
    /\ cl_pc' = IF sasl THEN "negotiating" ELSE "ready"
    /\ cl_client' = ~sasl
    /\ UNCHANGED << _reqs, cl_issued, cl_outcomes >>
    /\ UNCHANGED << checks, http_ctor, tssl >>
    /\ UNCHANGED << readVars, stream, writeVars, saslVars, codecVars, serverVars >>

\* the negotiation completes: ThriftClientProtocol.connectionMade runs
ClientNegotiated ==
    /\ cl_pc = "negotiating"
    /\ cl_pc' = "ready"
    /\ cl_client' = TRUE
    /\ UNCHANGED << _reqs, cl_issued, cl_outcomes >>
    /\ UNCHANGED << checks, http_ctor, tssl >>
    /\ UNCHANGED << readVars, stream, writeVars, saslVars, codecVars, serverVars >>

\* the application calls a method of the client: a request is registered
ClientCall ==
    /\ cl_pc = "ready"
    /\ cl_client
    /\ cl_issued < MaxCalls
    /\ cl_issued' = cl_issued + 1
    /\ _reqs' = Append(_reqs, Request(cl_issued + 1, FALSE))
    /\ UNCHANGED << cl_pc, cl_client, cl_outcomes >>
    /\ UNCHANGED << checks, http_ctor, tssl >>
    /\ UNCHANGED << readVars, stream, writeVars, saslVars, codecVars, serverVars >>

\* stringReceived with the reply to a pending request: the recv_ method takes
\* the request out of _reqs and calls it back
ClientReply(k) ==
    /\ cl_pc = "ready"
    /\ k \in 1..Len(_reqs)
    /\ _reqs' = SubSeq(_reqs, 1, k - 1) \o SubSeq(_reqs, k + 1, Len(_reqs))
    /\ cl_outcomes' = Append(cl_outcomes, [seqid |-> _reqs[k].seqid, by |-> "callback",
                                           type |-> "none", late |-> FALSE])
    /\ UNCHANGED << cl_pc, cl_client, cl_issued >>
    /\ UNCHANGED << checks, http_ctor, tssl >>
    /\ UNCHANGED << readVars, stream, writeVars, saslVars, codecVars, serverVars >>

\* the connection is lost: connectionLost runs to its end
ClientConnectionLost(retry) ==
    /\ cl_pc \in {"negotiating", "ready"}
    /\ cl_pc' = "lost"
    /\ LET p == ThriftClientProtocol_connectionLost(cl_client, _reqs, cl_issued,
                                                    cl_outcomes, retry)
       IN  /\ cl_client' = p.client
           /\ _reqs' = p.reqs
           /\ cl_issued' = p.issued
           /\ cl_outcomes' = p.outcomes
    /\ UNCHANGED << checks, http_ctor, tssl >>
    /\ UNCHANGED << readVars, stream, writeVars, saslVars, codecVars, serverVars >>

ClientNext ==
    \/ \E sasl \in BOOLEAN : ClientConnected(sasl)
    \/ ClientNegotiated
    \/ ClientCall
    \/ \E k \in 1..MaxCalls : ClientReply(k)
    \/ \E retry \in SUBSET (1..MaxCalls) : ClientConnectionLost(retry)

ClientSpec == CodecSideInit /\ [][ClientNext]_vars

\* the calls made on the request seqid
OutcomesOf(seqid) == {i \in 1..Len(cl_outcomes) : cl_outcomes[i].seqid = seqid}

\* C39: once the connection is lost every request registered, those registered
\* by errbacks during connectionLost included, was called exactly once: called
\* back by its reply, or failed with END_OF_FILE; the protocol holds no client
\* and no request; without a client connectionLost does nothing.
C39_PendingFailedOnce ==
    /\ \A seqid \in 1..cl_issued : Cardinality(OutcomesOf(seqid)) <= 1
    /\ cl_pc = "lost" =>
           /\ ~cl_client
           /\ _reqs = << >>
           /\ \A seqid \in 1..cl_issued :
                  /\ Cardinality(OutcomesOf(seqid)) = 1
                  /\ \A i \in OutcomesOf(seqid) :
                         cl_outcomes[i].by = "errback" => cl_outcomes[i].type = "END_OF_FILE"
    /\ (cl_pc = "lost" /\ cl_issued = 0) => cl_outcomes = << >>
    /\ cl_pc # "lost" =>
           \A i \in 1..Len(cl_outcomes) : cl_outcomes[i].by = "callback"

\* two requests were pending when the connection was lost, both were failed,
\* and so was the one that an errback registered meanwhile
C39_Witness ==
    /\ cl_pc = "lost"
    /\ cl_issued = 3
    /\ Cardinality({i \in 1..Len(cl_outcomes) :
                        cl_outcomes[i].by = "errback" /\ ~cl_outcomes[i].late}) = 2
    /\ \E i \in 1..Len(cl_outcomes) : cl_outcomes[i].by = "errback" /\ cl_outcomes[i].late


\* ---------------------------------------------------------------------------
\* TTornadoStreamTransport.flush on a transport that was never opened
\* ---------------------------------------------------------------------------
\* the tornado flush() calls after the j-th that found a stream
LaterAttempts(j) ==
    {k \in (j + 1)..Len(flushLog) :
        flushLog[k].t = "tornado" /\ flushLog[k].attempted}

\* the stream writes whose frame holds a byte of w
WritesCarrying(w) ==
    {i \in 1..Len(wire["tornado"]) :
        Range(Payload("tornado", wire["tornado"][i].data)) \cap Range(w) # {}}

\* C40: a flush() on a transport whose stream is None raises NOT_OPEN, issues
\* no write and leaves the write buffer as it was; the first later flush()
\* that finds a stream issues one write whose frame starts with the bytes
\* buffered before the failed flush, and no other write carries any of them.
C40_NotOpenFlushKeepsBuffer ==
    \A j \in 1..Len(flushLog) :
       (flushLog[j].t = "tornado" /\ flushLog[j].streamWas = "none") =>
          /\ flushLog[j].raised = "NOT_OPEN"
          /\ ~flushLog[j].attempted
          /\ flushLog[j].writes = 0
          /\ flushLog[j].wbufAfter = WrittenSinceTaken(j)
          /\ LET kept == WrittenSinceTaken(j)
                 later == LaterAttempts(j)
                 first == CHOOSE k \in later : \A m \in later : k <= m
             IN  /\ later = {} => WritesCarrying(kept) = {}
                 /\ later # {} =>
                       /\ flushLog[first].writes = 1
                       /\ Len(Payload("tornado", WireOf(first))) >= Len(kept)
                       /\ SubSeq(Payload("tornado", WireOf(first)), 1, Len(kept))
                             = kept
                       /\ kept # << >> =>
                             WritesCarrying(kept) =
                                {Cardinality(AttemptsOf("tornado", first))}

\* bytes were written and flushed before open(), the transport was opened, and
\* the first flush() after that sent them in one frame
C40_Witness ==
    /\ Len(flushLog) = 2
    /\ flushLog[1].t = "tornado"
    /\ flushLog[1].streamWas = "none"
    /\ Len(flushLog[1].written) = 2
    /\ flushLog[2].t = "tornado"
    /\ flushLog[2].streamWas = "open"
    /\ flushLog[2].written = << >>
    /\ Len(wire["tornado"]) = 1
    /\ wire["tornado"][1].ok
    /\ Payload("tornado", wire["tornado"][1].data) = flushLog[1].written

====
